---- MODULE Spec2Model ----
(***************************************************************************)
(* LicenseChain NFT SDK: the facade, its two resource managers and the     *)
(* request pipeline (validation, retryWithBackoff, sendRequest,            *)
(* handleHttpError) as a state machine.                                    *)
(*                                                                         *)
(* JavaScript values are represented as follows.                           *)
(*   - a string that the code inspects character by character (addresses,  *)
(*     token ids, identifiers, names, currencies) is a sequence of         *)
(*     one-character strings; "" is << >>;                                 *)
(*   - an optional value is << >> (undefined) or << v >>;                  *)
(*   - a number is an integer;                                             *)
(*   - an object literal is a sequence of << key, value >> pairs in        *)
(*     source order, values being optional values;                         *)
(*   - a URL is a sequence of atoms, "/" always being an atom of its own;  *)
(*   - error messages and header values are TLA+ strings.                  *)
(***************************************************************************)
EXTENDS Integers, Sequences, FiniteSets, TLC

VARIABLES
    facade,              \* the LicenseChainNFT instance: its four private fields
    nftManager,          \* the NFTManager the facade holds
    marketplaceManager,  \* the MarketplaceManager the facade holds
    call                 \* one record per logical call (manager operation)

vars == <<facade, nftManager, marketplaceManager, call>>

-----------------------------------------------------------------------------
(* Bounds of the model *)

\* Largest retry count a configuration is given.
MaxRetries == 4

\* Largest retry count of the facade that concurrent calls share.
MaxSharedRetries == 2

-----------------------------------------------------------------------------
(* Program constants *)

AddrHexLen == 40
DefaultRetries == 3
DefaultTimeout == 30000
DefaultMaxRetries == 3
DefaultInitialDelay == 1000
SignatureHexLen == 64

-----------------------------------------------------------------------------
(* Optional values *)

None == << >>
Some(v) == << v >>
IsSome(o) == Len(o) > 0
Val(o) == o[1]

-----------------------------------------------------------------------------
(* Character strings *)

HexChars == {"0", "1", "2", "3", "4", "5", "6", "7", "8", "9",
             "a", "b", "c", "d", "e", "f", "A", "B", "C", "D", "E", "F"}
DigitChars == {"0", "1", "2", "3", "4", "5", "6", "7", "8", "9"}
SpaceChars == {" ", "\t", "\n"}

\* s.trim() === "": every character is white space
IsBlank(s) == \A i \in 1..Len(s) : s[i] \in SpaceChars

\* /\/$/ removed from the end of a base URL
TrimTrailingSlash(s) ==
    IF Len(s) > 0 /\ s[Len(s)] = "/" THEN SubSeq(s, 1, Len(s) - 1) ELSE s

\* the pattern without its end anchor: what follows the 40 digits is ignored
validateEthereumAddress_Unanchored(address) ==
    /\ Len(address) >= 2 + AddrHexLen
    /\ address[1] = "0"
    /\ address[2] = "x"
    /\ \A i \in 3..(2 + AddrHexLen) : address[i] \in HexChars

\* utils.validateEthereumAddress: /^0x[a-fA-F0-9]{40}$/
validateEthereumAddress(address) ==
    /\ Len(address) = 2 + AddrHexLen
    /\ address[1] = "0"
    /\ address[2] = "x"
    /\ \A i \in 3..Len(address) : address[i] \in HexChars

\* utils.validateTokenId: /^[0-9]+$/
validateTokenId(tokenId) ==
    /\ Len(tokenId) >= 1
    /\ \A i \in 1..Len(tokenId) : tokenId[i] \in DigitChars

\* utils.validateMetadata; metadata is an optional record of three strings
validateMetadata(metadata) ==
    IF ~IsSome(metadata) THEN FALSE
    ELSE IF Len(Val(metadata).name) = 0 THEN FALSE
    ELSE IF Len(Val(metadata).description) = 0 THEN FALSE
    ELSE IF Len(Val(metadata).image) = 0 THEN FALSE
    ELSE TRUE

-----------------------------------------------------------------------------
(* Errors: name is the class, code the machine code of the taxonomy *)

MkError(name, code, message) == [name |-> name, code |-> code, message |-> message]

NetworkError(message) == MkError("NetworkError", Some("NETWORK_ERROR"), message)
ValidationError(message) == MkError("ValidationError", Some("VALIDATION_ERROR"), message)
AuthenticationError(message) ==
    MkError("AuthenticationError", Some("AUTHENTICATION_ERROR"), message)
NotFoundError(message) == MkError("NotFoundError", Some("NOT_FOUND_ERROR"), message)
RateLimitError(message) == MkError("RateLimitError", Some("RATE_LIMIT_ERROR"), message)
ServerError(message) == MkError("ServerError", Some("SERVER_ERROR"), message)

\* new Error(message): the built-in class, outside the taxonomy, no code
PlainError(message) == MkError("Error", None, message)
\* the built-in TypeError raised by the runtime
TypeError(message) == MkError("TypeError", None, message)
\* the built-in SyntaxError raised by JSON.parse
SyntaxError(message) == MkError("SyntaxError", None, message)

-----------------------------------------------------------------------------
(* Configuration and construction (LicenseChainNFT, NFTManager,            *)
(* MarketplaceManager constructors)                                        *)

DefaultBaseUrl == <<"https:", "/", "/", "api.licensechain.app">>

\* a || b for an optional string: undefined and "" are falsy
OrString(o, d) == IF IsSome(o) /\ Len(Val(o)) > 0 THEN Val(o) ELSE d
\* a ?? b for an optional number: only undefined gives the default
OrNumber_Nullish(o, d) == IF IsSome(o) THEN Val(o) ELSE d

\* a || b for an optional number: undefined and 0 are falsy
OrNumber(o, d) == IF IsSome(o) /\ Val(o) # 0 THEN Val(o) ELSE d

NoFacade == [state |-> "none", apiKey |-> "", baseUrl |-> << >>, timeout |-> 0,
             retries |-> 0, error |-> None]
NoManager == [constructed |-> FALSE, apiKey |-> "", baseUrl |-> << >>, timeout |-> 0,
              retries |-> 0]

\* new NFTManager(...) / new MarketplaceManager(...): the same constructor body
NewManager(apiKey, baseUrl, timeout, retries) ==
    [constructed |-> TRUE, apiKey |-> apiKey, baseUrl |-> TrimTrailingSlash(baseUrl),
     timeout |-> timeout, retries |-> retries]

\* The constructor throws `new ConfigurationException(...)`, a name errors.ts does
\* not export: the imported binding is undefined and `new undefined` raises the
\* runtime's TypeError.
ConfigurationFailure == TypeError("ConfigurationException is not a constructor")

\* a constructor that does not test the API key
NewFacade_NoKeyCheck(options) ==
    /\ facade.state = "none"
    /\ LET apiKey  == options.apiKey
           baseUrl == OrString(options.baseUrl, DefaultBaseUrl)
           timeout == OrNumber(options.timeout, DefaultTimeout)
           retries == OrNumber(options.retries, DefaultRetries)
       IN  /\ facade' = [state |-> "ready", apiKey |-> apiKey, baseUrl |-> baseUrl,
                         timeout |-> timeout, retries |-> retries, error |-> None]
           /\ nftManager' = NewManager(apiKey, baseUrl, timeout, retries)
           /\ marketplaceManager' = NewManager(apiKey, baseUrl, timeout, retries)
    /\ UNCHANGED call

\* new LicenseChainNFT(options)
NewFacade(options) ==
    /\ facade.state = "none"
    /\ LET apiKey  == options.apiKey
           baseUrl == OrString(options.baseUrl, DefaultBaseUrl)
           timeout == OrNumber(options.timeout, DefaultTimeout)
           retries == OrNumber(options.retries, DefaultRetries)
       IN  IF apiKey = ""
           THEN /\ facade' = [NoFacade EXCEPT !.state = "failed",
                                              !.error = Some(ConfigurationFailure)]
                /\ UNCHANGED <<nftManager, marketplaceManager>>
           ELSE /\ facade' = [state |-> "ready", apiKey |-> apiKey, baseUrl |-> baseUrl,
                              timeout |-> timeout, retries |-> retries, error |-> None]
                /\ nftManager' = NewManager(apiKey, baseUrl, timeout, retries)
                /\ marketplaceManager' = NewManager(apiKey, baseUrl, timeout, retries)
    /\ UNCHANGED call

ApiKeys == {"", "sk_live"}
BaseUrls == {<< >>, <<"http:", "/", "/", "h", "/">>, <<"http:", "/", "/", "h", "/", "/">>}
Timeouts == {0, 5000}
RetryCounts == -1..MaxRetries

\* The configurations a caller passes: every retry count and base URL with the
\* other options absent, and every timeout with a single attempt.
ConfigurationOptions ==
    {[apiKey |-> k, baseUrl |-> None, timeout |-> None, retries |-> None] : k \in ApiKeys}
    \cup {[apiKey |-> "sk_live", baseUrl |-> None, timeout |-> None, retries |-> Some(r)] :
            r \in RetryCounts}
    \cup {[apiKey |-> "sk_live", baseUrl |-> Some(u), timeout |-> None, retries |-> None] :
            u \in BaseUrls}
    \cup {[apiKey |-> "sk_live", baseUrl |-> None, timeout |-> Some(t), retries |-> Some(1)] :
            t \in Timeouts}

Construct == \E options \in ConfigurationOptions : NewFacade(options)

\* LicenseChainNFT.create(apiKey, baseUrl?)
Create ==
    \E k \in ApiKeys, u \in {None} \cup {Some(b) : b \in BaseUrls} :
        NewFacade([apiKey |-> k, baseUrl |-> Some(OrString(u, DefaultBaseUrl)),
                   timeout |-> None, retries |-> None])

\* LicenseChainNFT.fromEnvironment(); the two environment variables are inputs
FromEnvironment ==
    \E k \in {None} \cup {Some(a) : a \in {"sk_live"}},
       u \in {None} \cup {Some(b) : b \in BaseUrls} :
        NewFacade([apiKey |-> IF IsSome(k) THEN Val(k) ELSE "",
                   baseUrl |-> Some(OrString(u, DefaultBaseUrl)),
                   timeout |-> None, retries |-> None])

-----------------------------------------------------------------------------
(* Object literals: sequences of << key, optional value >> pairs *)

Keys(obj) == {obj[i][1] : i \in 1..Len(obj)}

\* obj[key]: undefined when the key is absent
Get(obj, key) ==
    IF key \in Keys(obj)
    THEN obj[CHOOSE i \in 1..Len(obj) : obj[i][1] = key][2]
    ELSE None

\* { ...obj, key: value }
Put(obj, key, value) ==
    IF key \in Keys(obj)
    THEN [i \in 1..Len(obj) |-> IF obj[i][1] = key THEN <<key, value>> ELSE obj[i]]
    ELSE Append(obj, <<key, value>>)

IsPresent(pair) == IsSome(pair[2])

\* a serializer that writes a member without a value as null
jsonSerialize_UndefinedAsNull(obj) ==
    [i \in 1..Len(obj) |-> IF IsPresent(obj[i]) THEN obj[i] ELSE <<obj[i][1], Some("null")>>]

\* utils.jsonSerialize = JSON.stringify(obj, null, 2): members whose value is
\* undefined are left out, the others keep their order. The text is kept as
\* the sequence of the members written.
jsonSerialize(obj) == SelectSeq(obj, IsPresent)

\* utils.jsonDeserialize = JSON.parse(jsonString): a new object that gets the
\* members of the text in their order; a key written twice keeps its last value
RECURSIVE ParseMembers(_, _)
ParseMembers(members, obj) ==
    IF Len(members) = 0 THEN obj
    ELSE ParseMembers(Tail(members), Put(obj, Head(members)[1], Head(members)[2]))

jsonDeserialize(jsonString) == ParseMembers(jsonString, << >>)

Digits == <<"0", "1", "2", "3", "4", "5", "6", "7", "8", "9">>

RECURSIVE NatToString(_)
NatToString(n) ==
    IF n < 10 THEN <<Digits[n + 1]>>
    ELSE NatToString(n \div 10) \o <<Digits[(n % 10) + 1]>>

\* String(value) of a number
NumberToString(n) == IF n < 0 THEN <<"-">> \o NatToString(-n) ELSE NatToString(n)

NumericKeys == {"page", "limit", "min_price", "max_price"}

\* if (options.key): undefined, 0 and "" are falsy
Truthy(key, o) ==
    /\ IsSome(o)
    /\ IF key \in NumericKeys THEN Val(o) # 0 ELSE Len(Val(o)) > 0

\* the option keys each manager copies, as << option key, parameter name >>
NFTParamKeys ==
    << <<"page", "page">>, <<"limit", "limit">>, <<"owner", "owner">>,
       <<"contract_address", "contract_address">>, <<"status", "status">>,
       <<"min_price", "min_price">>, <<"max_price", "max_price">>,
       <<"currency", "currency">>, <<"created_after", "created_after">>,
       <<"created_before", "created_before">>, <<"field", "sort_field">>,
       <<"direction", "sort_direction">> >>

MarketplaceParamKeys ==
    << <<"page", "page">>, <<"limit", "limit">>, <<"seller", "seller">>,
       <<"buyer", "buyer">>, <<"nft_id", "nft_id">>, <<"user", "user">>,
       <<"status", "status">>, <<"min_price", "min_price">>,
       <<"max_price", "max_price">>, <<"currency", "currency">>,
       <<"created_after", "created_after">>, <<"created_before", "created_before">>,
       <<"field", "sort_field">>, <<"direction", "sort_direction">> >>

RECURSIVE CopyParams(_, _, _)
CopyParams(keys, options, i) ==
    IF i > Len(keys) THEN << >>
    ELSE (IF Truthy(keys[i][1], Get(options, keys[i][1]))
          THEN << <<keys[i][2], Get(options, keys[i][1])>> >>
          ELSE << >>) \o CopyParams(keys, options, i + 1)

\* buildQueryParams(options) of either manager; options is optional
buildQueryParams(keys, options) ==
    IF ~IsSome(options) THEN << >> ELSE CopyParams(keys, Val(options), 1)

\* searchParams.append(key, String(value)) for each entry not undefined/null
QueryEntry(pair) ==
    <<pair[1], IF pair[1] \in NumericKeys THEN NumberToString(Val(pair[2])) ELSE Val(pair[2])>>

\* buildUrl(endpoint, params); params is optional
buildUrl(manager, endpoint, params) ==
    LET hasQuery == IsSome(params) /\ Len(Val(params)) > 0
        kept     == IF hasQuery THEN SelectSeq(Val(params), IsPresent) ELSE << >>
    IN  [base |-> manager.baseUrl, path |-> endpoint, hasQuery |-> hasQuery,
         query |-> [i \in 1..Len(kept) |-> QueryEntry(kept[i])]]

\* request options that leave the Authorization header out
buildRequestOptions_NoAuth(manager, method, data) ==
    [method  |-> method,
     headers |-> << <<"Content-Type", "application/json">>,
                    <<"X-API-Version", "1.0">>,
                    <<"X-Platform", "nft-sdk">>,
                    <<"User-Agent", "LicenseChain-NFT-SDK/1.0.0">> >>,
     body    |-> IF IsSome(data) THEN Some(jsonSerialize(Val(data))) ELSE None]

\* buildRequestOptions(method, data); data is optional (an object is truthy)
buildRequestOptions(manager, method, data) ==
    [method  |-> method,
     headers |-> << <<"Authorization", "Bearer " \o manager.apiKey>>,
                    <<"Content-Type", "application/json">>,
                    <<"X-API-Version", "1.0">>,
                    <<"X-Platform", "nft-sdk">>,
                    <<"User-Agent", "LicenseChain-NFT-SDK/1.0.0">> >>,
     body    |-> IF IsSome(data) THEN Some(jsonSerialize(Val(data))) ELSE None]

-----------------------------------------------------------------------------
(* The transport: what one fetch() of a request ends in *)

\* A response body: its text and, when the text is JSON, what it parses to: null,
\* or a value whose members error, message and data are read (a JSON string,
\* number or array has none of them).
NoJson == [isNull |-> FALSE, error |-> None, message |-> None, data |-> None]
TextBody(raw) == [raw |-> raw, json |-> None]
NullBody == [raw |-> "null", json |-> Some([NoJson EXCEPT !.isNull = TRUE])]
ObjectBody(raw, error, message, data) ==
    [raw |-> raw, json |-> Some([isNull |-> FALSE, error |-> error, message |-> message,
                                 data |-> data])]

EmptyBody == TextBody("")

Bodies ==
    {EmptyBody, TextBody("Service down"), NullBody,
     ObjectBody("{}", None, None, None),
     ObjectBody("{error}", Some("E1"), None, None),
     ObjectBody("{message}", None, Some("M1"), None),
     ObjectBody("{error,message}", Some("E1"), Some("M1"), None),
     ObjectBody("{error:'',message}", Some(""), Some("M1"), None),
     ObjectBody("{data}", None, None, Some("payload")),
     ObjectBody("\"oops\"", None, None, None)}

NoException == [name |-> "", message |-> ""]

Response(status, body) ==
    [type |-> "response", status |-> status, body |-> body, exception |-> NoException]
Thrown(name, message) ==
    [type |-> "throw", status |-> 0, body |-> EmptyBody,
     exception |-> [name |-> name, message |-> message]]

SuccessStatuses == {200, 204}
ErrorStatuses == {400, 401, 403, 404, 418, 429, 500, 502, 503, 504}

\* What fetch() rejects with: a connection failure is a TypeError; the timeout
\* signal aborts with a DOMException named TimeoutError or, on runtimes that
\* ignore the abort reason, AbortError.
TransportFailures ==
    {Thrown("TypeError", "fetch failed"),
     Thrown("TimeoutError", "The operation was aborted due to timeout"),
     Thrown("AbortError", "This operation was aborted")}

IsTimeout(outcome) ==
    outcome.type = "throw" /\ outcome.exception.name \in {"TimeoutError", "AbortError"}

\* The transport outcomes explored: every status with one body, and every body
\* with one success status and one failure status.
Outcomes ==
    {Response(s, ObjectBody("{error}", Some("E1"), None, None)) :
        s \in SuccessStatuses \cup ErrorStatuses}
    \cup {Response(s, b) : s \in {200, 400}, b \in Bodies}
    \cup TransportFailures

-----------------------------------------------------------------------------
(* sendRequest and handleHttpError (identical in both managers) *)

StatusText(status) ==
    CASE status = 200 -> "200" [] status = 204 -> "204" [] status = 400 -> "400"
      [] status = 401 -> "401" [] status = 403 -> "403" [] status = 404 -> "404"
      [] status = 418 -> "418" [] status = 429 -> "429" [] status = 500 -> "500"
      [] status = 502 -> "502" [] status = 503 -> "503" [] status = 504 -> "504"

\* handleHttpError(statusCode, message): the error it throws
handleHttpError(statusCode, message) ==
    CASE statusCode = 400 -> ValidationError("Bad Request: " \o message)
      [] statusCode = 401 -> AuthenticationError("Unauthorized: " \o message)
      [] statusCode = 403 -> AuthenticationError("Forbidden: " \o message)
      [] statusCode = 404 -> NotFoundError("Not Found: " \o message)
      [] statusCode = 429 -> RateLimitError("Rate Limited: " \o message)
      [] statusCode \in {500, 502, 503, 504} -> ServerError("Server Error: " \o message)
      [] OTHER -> ServerError("Unexpected response: " \o StatusText(statusCode)
                              \o " " \o message)

\* a message choice that prefers the message field to the error field
ErrorMessage_MessageFirst(body) ==
    IF IsSome(body.json) /\ ~Val(body.json).isNull
    THEN LET errorData == Val(body.json)
         IN  IF IsSome(errorData.message) /\ Val(errorData.message) # ""
             THEN Val(errorData.message)
             ELSE IF IsSome(errorData.error) /\ Val(errorData.error) # ""
                  THEN Val(errorData.error)
                  ELSE "Unknown error"
    ELSE IF body.raw # "" THEN body.raw ELSE "Unknown error"

\* the message sendRequest extracts from the body of a non-success response:
\* errorData.error || errorData.message || 'Unknown error' when the body parses
\* to an object; when parsing throws, or the parsed value is null (reading
\* .error of null throws inside the same try), errorText || 'Unknown error'
ErrorMessage(body) ==
    IF IsSome(body.json) /\ ~Val(body.json).isNull
    THEN LET errorData == Val(body.json)
         IN  IF IsSome(errorData.error) /\ Val(errorData.error) # ""
             THEN Val(errorData.error)
             ELSE IF IsSome(errorData.message) /\ Val(errorData.message) # ""
                  THEN Val(errorData.message)
                  ELSE "Unknown error"
    ELSE IF body.raw # "" THEN body.raw ELSE "Unknown error"

\* a catch clause that rethrows what it caught
sendRequestCatch_Rethrow(error) == error

\* the catch clause of sendRequest: every Error caught in the try block, the
\* errors handleHttpError threw included, leaves as a NetworkError
sendRequestCatch(error) ==
    IF error.name = "AbortError"
    THEN NetworkError("Request timeout")
    ELSE NetworkError(error.message)

EmptyObject == NoJson
NoError == MkError("", None, "")
Resolved(value) == [ok |-> TRUE, value |-> value, error |-> NoError]
Rejected(error) == [ok |-> FALSE, value |-> NoJson, error |-> error]

IsOk(status) == status >= 200 /\ status <= 299

\* sendRequest(url, options) for one outcome of fetch
sendRequest(outcome) ==
    IF outcome.type = "throw"
    THEN Rejected(sendRequestCatch(
             MkError(outcome.exception.name, None, outcome.exception.message)))
    ELSE IF IsOk(outcome.status)
         THEN IF outcome.body.raw = ""
              THEN Resolved(EmptyObject)
              ELSE IF IsSome(outcome.body.json)
                   THEN Resolved(Val(outcome.body.json))
                   ELSE Rejected(sendRequestCatch(SyntaxError("Unexpected token")))
         ELSE Rejected(sendRequestCatch(
                  handleHttpError(outcome.status, ErrorMessage(outcome.body))))

-----------------------------------------------------------------------------
(* Calls: one manager operation each, from invocation to its outcome *)

Calls == {"c1"}

NoRequest == None
NoReturn == [state |-> "none", value |-> NoJson, error |-> NoError]
Returned(value) == [state |-> "returned", value |-> value, error |-> NoError]
Threw(error) == [state |-> "threw", value |-> NoJson, error |-> error]

\* pc: "idle" (not invoked), "rejected" (failed before retryWithBackoff was
\* entered), "pending" (a dispatch is in flight), "retrying" (a backoff timer is
\* pending), "success", "failed".
\* args are the arguments of the invocation; request what makeRequest built;
\* attempts and delays the counter and the timers of retryWithBackoff;
\* dispatches the number of times fn (the transport) was invoked; lastOutcome
\* what the latest fetch ended in and lastSettlement how the latest fn() settled;
\* allThrown whether every dispatch that failed so far failed because fetch
\* threw; promise the settlement
\* of the promise retryWithBackoff returned; return what the public operation
\* handed to its caller.
IdleCall ==
    [pc |-> "idle", manager |-> "", op |-> "", envelope |-> "void", args |-> << >>,
     request |-> NoRequest, maxRetries |-> 0, initialDelay |-> 0, attempts |-> 0,
     dispatches |-> 0, allThrown |-> TRUE, delays |-> << >>, lastOutcome |-> None,
     lastSettlement |-> None,
     promise |-> None, return |-> NoReturn]

ManagerOf(name) == IF name = "nft" THEN nftManager ELSE marketplaceManager

\* retryWithBackoff(fn, maxRetries, initialDelay) up to the first await: the
\* promise executor calls attempt(), which calls fn()
retryWithBackoff(k, maxRetries, initialDelay) ==
    [k EXCEPT !.pc = "pending", !.maxRetries = maxRetries,
              !.initialDelay = initialDelay, !.attempts = 0, !.dispatches = 1]

\* a makeRequest that falls back to three retries when the count is 0
makeRequest_DefaultsRetries(k, name, method, endpoint, data, params) ==
    LET url            == buildUrl(ManagerOf(name), endpoint, params)
        requestOptions == buildRequestOptions(ManagerOf(name), method, data)
    IN  retryWithBackoff(
            [k EXCEPT !.request = Some([url |-> url, options |-> requestOptions])],
            OrNumber(Some(ManagerOf(name).retries), DefaultRetries), DefaultInitialDelay)

\* makeRequest(method, endpoint, data, params) of manager `name`
makeRequest(k, name, method, endpoint, data, params) ==
    LET url            == buildUrl(ManagerOf(name), endpoint, params)
        requestOptions == buildRequestOptions(ManagerOf(name), method, data)
    IN  retryWithBackoff(
            [k EXCEPT !.request = Some([url |-> url, options |-> requestOptions])],
            ManagerOf(name).retries, DefaultInitialDelay)

\* A public operation of manager `name`: its validation has ended in
\* `invalid` (None, or the error it threw); a valid call goes on to makeRequest.
Operation(c, name, op, envelope, args, invalid, method, endpoint, data, params) ==
    /\ ManagerOf(name).constructed
    /\ call[c].pc = "idle"
    /\ LET k == [IdleCall EXCEPT !.manager = name, !.op = op, !.envelope = envelope,
                                 !.args = args]
       IN  call' = [call EXCEPT ![c] =
                IF IsSome(invalid)
                THEN [k EXCEPT !.pc = "rejected", !.return = Threw(Val(invalid))]
                ELSE makeRequest(k, name, method, endpoint, data, params)]
    /\ UNCHANGED <<facade, nftManager, marketplaceManager>>

\* the first error among the checks of a validator, in source order
RECURSIVE FirstError(_)
FirstError(checks) ==
    IF Len(checks) = 0 THEN None
    ELSE IF IsSome(Head(checks)) THEN Head(checks) ELSE FirstError(Tail(checks))

Check(ok, error) == IF ok THEN None ELSE Some(error)

\* a backoff whose exponent is off by one
BackoffDelay_OffByOne(initialDelay, attempts) == initialDelay * (2 ^ attempts)

\* the delay before the retry that follows failed attempt number `attempts`
BackoffDelay(initialDelay, attempts) == initialDelay * (2 ^ (attempts - 1))

\* a loop that gives up one attempt early
RetriesExhausted_OneEarly(attempts, maxRetries) == attempts >= maxRetries - 1

\* a loop that makes one attempt too many
RetriesExhausted_OneLate(attempts, maxRetries) == attempts > maxRetries

\* if (attempts >= maxRetries) reject(error)
RetriesExhausted(attempts, maxRetries) == attempts >= maxRetries

\* the operation's own continuation after `await this.makeRequest(...)`:
\* "data" operations return response.data, which throws on null; "response"
\* operations return the response itself; "void" operations return nothing
Unwrap(k, value) ==
    CASE k.envelope = "data" ->
            IF value.isNull
            THEN Threw(TypeError("Cannot read properties of null (reading 'data')"))
            ELSE Returned([NoJson EXCEPT !.data = value.data])
      [] k.envelope = "response" -> Returned(value)
      [] OTHER -> Returned(NoJson)

\* an attempt counter declared outside retryWithBackoff, shared by all calls
Attempt_SharedCounter(k, settlement) ==
    IF settlement.ok
    THEN [k EXCEPT !.pc = "success", !.lastSettlement = Some(settlement),
                   !.promise = Some(settlement),
                   !.return = Unwrap(k, settlement.value)]
    ELSE LET others   == {call[d].attempts : d \in DOMAIN call}
             attempts == (CHOOSE n \in others : \A m \in others : m <= n) + 1
         IN  IF RetriesExhausted(attempts, k.maxRetries)
             THEN [k EXCEPT !.attempts = attempts, !.pc = "failed",
                            !.lastSettlement = Some(settlement),
                            !.promise = Some(settlement),
                            !.return = Threw(settlement.error)]
             ELSE [k EXCEPT !.attempts = attempts, !.pc = "retrying",
                            !.lastSettlement = Some(settlement),
                            !.delays = Append(@, BackoffDelay(k.initialDelay, attempts))]

\* an attempt that, on a failure with retries left, arms the timer and calls
\* fn() again at once
Attempt_EagerRetry(k, settlement) ==
    IF settlement.ok
    THEN [k EXCEPT !.pc = "success", !.lastSettlement = Some(settlement),
                   !.promise = Some(settlement),
                   !.return = Unwrap(k, settlement.value)]
    ELSE LET attempts == k.attempts + 1
         IN  IF RetriesExhausted(attempts, k.maxRetries)
             THEN [k EXCEPT !.attempts = attempts, !.pc = "failed",
                            !.lastSettlement = Some(settlement),
                            !.promise = Some(settlement),
                            !.return = Threw(settlement.error)]
             ELSE [k EXCEPT !.attempts = attempts, !.pc = "pending",
                            !.dispatches = @ + 1,
                            !.lastSettlement = Some(settlement),
                            !.delays = Append(@, BackoffDelay(k.initialDelay, attempts))]

\* an attempt that, on a failure with retries left, arms no timer
Attempt_NoTimer(k, settlement) ==
    IF settlement.ok
    THEN [k EXCEPT !.pc = "success", !.lastSettlement = Some(settlement),
                   !.promise = Some(settlement),
                   !.return = Unwrap(k, settlement.value)]
    ELSE LET attempts == k.attempts + 1
         IN  IF RetriesExhausted(attempts, k.maxRetries)
             THEN [k EXCEPT !.attempts = attempts, !.pc = "failed",
                            !.lastSettlement = Some(settlement),
                            !.promise = Some(settlement),
                            !.return = Threw(settlement.error)]
             ELSE [k EXCEPT !.attempts = attempts, !.pc = "stalled",
                            !.lastSettlement = Some(settlement)]

\* attempt(): fn() has settled with `settlement`
Attempt(k, settlement) ==
    IF settlement.ok
    THEN [k EXCEPT !.pc = "success", !.lastSettlement = Some(settlement),
                   !.promise = Some(settlement),
                   !.return = Unwrap(k, settlement.value)]
    ELSE LET attempts == k.attempts + 1
         IN  IF RetriesExhausted(attempts, k.maxRetries)
             THEN [k EXCEPT !.attempts = attempts, !.pc = "failed",
                            !.lastSettlement = Some(settlement),
                            !.promise = Some(settlement),
                            !.return = Threw(settlement.error)]
             ELSE [k EXCEPT !.attempts = attempts, !.pc = "retrying",
                            !.lastSettlement = Some(settlement),
                            !.delays = Append(@, BackoffDelay(k.initialDelay, attempts))]

\* a transport that completes one call at a time
FetchCompletes_Serialized(c) ==
    /\ call[c].pc = "pending"
    /\ call[c].manager \in {"nft", "marketplace"}
    /\ \A d \in DOMAIN call \ {c} : call[d].pc \notin {"pending", "retrying"}
    /\ \E outcome \in Outcomes :
         call' = [call EXCEPT ![c] =
                    Attempt([call[c] EXCEPT
                                !.lastOutcome = Some(outcome),
                                !.allThrown =
                                    @ /\ (outcome.type = "throw" \/ sendRequest(outcome).ok)],
                            sendRequest(outcome))]
    /\ UNCHANGED <<facade, nftManager, marketplaceManager>>

\* fetch() of a manager call completes with a response or throws
FetchCompletes(c) ==
    /\ call[c].pc = "pending"
    /\ call[c].manager \in {"nft", "marketplace"}
    /\ \E outcome \in Outcomes :
         call' = [call EXCEPT ![c] =
                    Attempt([call[c] EXCEPT
                                !.lastOutcome = Some(outcome),
                                !.allThrown =
                                    @ /\ (outcome.type = "throw" \/ sendRequest(outcome).ok)],
                            sendRequest(outcome))]
    /\ UNCHANGED <<facade, nftManager, marketplaceManager>>

\* a retry that sends the request without its body
TimerFires_DropsBody(c) ==
    /\ call[c].pc = "retrying"
    /\ call' = [call EXCEPT ![c].pc = "pending", ![c].dispatches = @ + 1,
                            ![c].request =
                                IF IsSome(@)
                                THEN Some([Val(@) EXCEPT !.options.body = None])
                                ELSE @]
    /\ UNCHANGED <<facade, nftManager, marketplaceManager>>

\* a timer armed on the final failure as well: it fires after the call failed
TimerFires_AfterSettled(c) ==
    /\ call[c].pc \in {"retrying", "failed"}
    /\ call' = [call EXCEPT ![c].pc = "pending", ![c].dispatches = @ + 1]
    /\ UNCHANGED <<facade, nftManager, marketplaceManager>>

\* a retry that takes one from the manager's retry count
TimerFires_ConsumesRetry(c) ==
    /\ call[c].pc = "retrying"
    /\ call' = [call EXCEPT ![c].pc = "pending", ![c].dispatches = @ + 1]
    /\ nftManager' = [nftManager EXCEPT !.retries = @ - 1]
    /\ UNCHANGED <<facade, marketplaceManager>>

\* the backoff timer fires: attempt() runs again and calls fn()
TimerFires(c) ==
    /\ call[c].pc = "retrying"
    /\ call' = [call EXCEPT ![c].pc = "pending", ![c].dispatches = @ + 1]
    /\ UNCHANGED <<facade, nftManager, marketplaceManager>>

-----------------------------------------------------------------------------
(* Inputs the callers pass *)

HexDigits(n) == [i \in 1..n |-> Digits[(i % 10) + 1]]

GoodAddress == <<"0", "x">> \o HexDigits(AddrHexLen)
MixedCaseAddress == <<"0", "x", "a", "B", "c", "D", "e", "F">> \o HexDigits(AddrHexLen - 6)
ShortAddress == <<"0", "x">> \o HexDigits(AddrHexLen - 1)
NonHexAddress == <<"0", "x", "g">> \o HexDigits(AddrHexLen - 1)

Addresses == {GoodAddress, ShortAddress, NonHexAddress}
TokenIds == {<<"4", "2">>, <<"a", "b", "c">>, << >>}
Ids == {<<"n", "1">>, << >>, <<" ">>}
Amounts == {-1, 0, 7}

GoodMetadata == [name |-> <<"N">>, description |-> <<"D">>, image |-> <<"i">>]
Metadatas == {None, Some(GoodMetadata), Some([GoodMetadata EXCEPT !.name = << >>]),
              Some([GoodMetadata EXCEPT !.image = << >>])}

-----------------------------------------------------------------------------
(* NFTManager *)

NFT_validateEthereumAddress(address, fieldName) ==
    Check(validateEthereumAddress(address),
          ValidationError("Invalid " \o fieldName \o " format"))

\* a token id check that accepts every string
NFT_validateTokenId_AcceptsAll(tokenId, fieldName) == None

NFT_validateTokenId(tokenId, fieldName) ==
    Check(validateTokenId(tokenId), ValidationError("Invalid " \o fieldName \o " format"))

NFT_validateId(id, fieldName) ==
    Check(~(Len(id) = 0 \/ IsBlank(id)), ValidationError(fieldName \o " is required"))

validateCreateRequest(request) ==
    FirstError(<<NFT_validateEthereumAddress(request.contract_address, "contract_address"),
                 NFT_validateTokenId(request.token_id, "token_id"),
                 NFT_validateEthereumAddress(request.owner, "owner"),
                 Check(validateMetadata(request.metadata),
                       ValidationError("Invalid metadata format"))>>)

validateCreateCollectionRequest(request) ==
    FirstError(<<Check(~(Len(request.name) = 0 \/ IsBlank(request.name)),
                       ValidationError("Collection name is required")),
                 Check(~(Len(request.symbol) = 0 \/ IsBlank(request.symbol)),
                       ValidationError("Collection symbol is required")),
                 Check(~(Len(request.description) = 0 \/ IsBlank(request.description)),
                       ValidationError("Collection description is required")),
                 NFT_validateEthereumAddress(request.contract_address, "contract_address"),
                 NFT_validateEthereumAddress(request.owner, "owner"),
                 Check(~(request.total_supply <= 0),
                       ValidationError("Total supply must be positive"))>>)

GoodCreateNFTRequest ==
    [contract_address |-> GoodAddress, token_id |-> <<"4", "2">>, owner |-> MixedCaseAddress,
     metadata |-> Some(GoodMetadata), license_id |-> None]

\* the valid request and the requests that differ from it in one field
CreateNFTRequests ==
    {[GoodCreateNFTRequest EXCEPT !.contract_address = a] : a \in Addresses}
    \cup {[GoodCreateNFTRequest EXCEPT !.token_id = t] : t \in TokenIds}
    \cup {[GoodCreateNFTRequest EXCEPT !.owner = a] : a \in Addresses}
    \cup {[GoodCreateNFTRequest EXCEPT !.metadata = m] : m \in Metadatas}
    \cup {[GoodCreateNFTRequest EXCEPT !.license_id = Some(<<"l", "1">>)]}

\* the object literal `data` of create: license_id is a member even when the
\* request has none
CreateNFTData(request) ==
    << <<"contract_address", Some(request.contract_address)>>,
       <<"token_id", Some(request.token_id)>>,
       <<"owner", Some(request.owner)>>,
       <<"metadata", request.metadata>>,
       <<"license_id", request.license_id>> >>

NFT_create(c) ==
    \E request \in CreateNFTRequests :
        Operation(c, "nft", "create", "data", <<request>>, validateCreateRequest(request),
                  "POST", <<"/", "nfts">>, Some(CreateNFTData(request)), None)

NFT_get(c) ==
    \E nftId \in Ids :
        Operation(c, "nft", "get", "data", <<nftId>>, NFT_validateId(nftId, "nft_id"),
                  "GET", <<"/", "nfts", "/">> \o nftId, None, None)

\* UpdateNFTRequest objects: every field is optional
UpdateNFTRequests ==
    {<< >>,
     << <<"owner", Some(GoodAddress)>> >>,
     << <<"owner", Some(NonHexAddress)>> >>,
     << <<"owner", None>>, <<"status", Some(<<"burned">>)>> >>}

NFT_update(c) ==
    \E nftId \in Ids, updates \in UpdateNFTRequests :
        Operation(c, "nft", "update", "data", <<nftId, updates>>, NFT_validateId(nftId, "nft_id"),
                  "PUT", <<"/", "nfts", "/">> \o nftId, Some(updates), None)

NFT_delete(c) ==
    \E nftId \in Ids :
        Operation(c, "nft", "delete", "void", <<nftId>>, NFT_validateId(nftId, "nft_id"),
                  "DELETE", <<"/", "nfts", "/">> \o nftId, None, None)

\* PaginationOptions & FilterOptions & SortOptions objects (or no argument)
ListOptions ==
    {None,
     Some(<< >>),
     Some(<< <<"page", Some(1)>>, <<"limit", None>>, <<"owner", Some(GoodAddress)>> >>),
     Some(<< <<"page", Some(0)>>, <<"limit", Some(10)>> >>),
     Some(<< <<"owner", Some(ShortAddress)>> >>),
     Some(<< <<"contract_address", Some(NonHexAddress)>>, <<"status", Some(<<"active">>)>> >>),
     Some(<< <<"min_price", Some(-1)>>, <<"max_price", Some(7)>>,
             <<"currency", Some(<<"E", "T", "H">>)>> >>),
     Some(<< <<"field", Some(<<"price">>)>>, <<"direction", Some(<<"asc">>)>>,
             <<"colour", Some(<<"red">>)>> >>)}

PaginationOptions ==
    {None, Some(<< <<"page", Some(2)>>, <<"limit", Some(0)>> >>)}

\* { ...options, key: value } where options may be undefined
Spread(options, key, value) ==
    Some(Put(IF IsSome(options) THEN Val(options) ELSE << >>, key, Some(value)))

NFT_list(c) ==
    \E options \in ListOptions :
        Operation(c, "nft", "list", "response", <<options>>, None, "GET", <<"/", "nfts">>, None,
                  Some(buildQueryParams(NFTParamKeys, options)))

NFT_getByOwner(c) ==
    \E owner \in Addresses, options \in PaginationOptions :
        Operation(c, "nft", "getByOwner", "response", <<owner, options>>,
                  NFT_validateEthereumAddress(owner, "owner"), "GET", <<"/", "nfts">>, None,
                  Some(buildQueryParams(NFTParamKeys, Spread(options, "owner", owner))))

NFT_getByContract(c) ==
    \E contractAddress \in Addresses, options \in PaginationOptions :
        Operation(c, "nft", "getByContract", "response", <<contractAddress, options>>,
                  NFT_validateEthereumAddress(contractAddress, "contract_address"),
                  "GET", <<"/", "nfts">>, None,
                  Some(buildQueryParams(NFTParamKeys,
                           Spread(options, "contract_address", contractAddress))))

NFT_stats(c) ==
    Operation(c, "nft", "stats", "data", << >>, None, "GET", <<"/", "nfts", "/", "stats">>,
              None, None)

GoodCreateCollectionRequest ==
    [name |-> <<"C">>, symbol |-> <<"S">>, description |-> <<"d">>,
     contract_address |-> GoodAddress, owner |-> GoodAddress, total_supply |-> 7,
     metadata |-> [image |-> <<"i">>]]

CreateCollectionRequests ==
    {[GoodCreateCollectionRequest EXCEPT !.name = n] : n \in {<< >>, <<" ">>}}
    \cup {[GoodCreateCollectionRequest EXCEPT !.symbol = << >>],
          [GoodCreateCollectionRequest EXCEPT !.description = <<" ">>]}
    \cup {[GoodCreateCollectionRequest EXCEPT !.contract_address = a] : a \in Addresses}
    \cup {[GoodCreateCollectionRequest EXCEPT !.owner = a] : a \in Addresses}
    \cup {[GoodCreateCollectionRequest EXCEPT !.total_supply = n] : n \in Amounts}

\* the request as createCollection hands it to makeRequest
CreateCollectionData(request) ==
    << <<"name", Some(request.name)>>,
       <<"symbol", Some(request.symbol)>>,
       <<"description", Some(request.description)>>,
       <<"contract_address", Some(request.contract_address)>>,
       <<"owner", Some(request.owner)>>,
       <<"total_supply", Some(request.total_supply)>>,
       <<"metadata", Some(request.metadata)>> >>

NFT_createCollection(c) ==
    \E request \in CreateCollectionRequests :
        Operation(c, "nft", "createCollection", "data", <<request>>,
                  validateCreateCollectionRequest(request), "POST", <<"/", "collections">>,
                  Some(CreateCollectionData(request)), None)

NFT_getCollection(c) ==
    \E collectionId \in Ids :
        Operation(c, "nft", "getCollection", "data", <<collectionId>>,
                  NFT_validateId(collectionId, "collection_id"),
                  "GET", <<"/", "collections", "/">> \o collectionId, None, None)

NFT_listCollections(c) ==
    \E options \in PaginationOptions :
        Operation(c, "nft", "listCollections", "response", <<options>>, None,
                  "GET", <<"/", "collections">>, None,
                  Some(buildQueryParams(NFTParamKeys, options)))

NFT_getCollectionStats(c) ==
    \E collectionId \in Ids :
        Operation(c, "nft", "getCollectionStats", "data", <<collectionId>>,
                  NFT_validateId(collectionId, "collection_id"),
                  "GET", <<"/", "collections", "/">> \o collectionId \o <<"/", "stats">>,
                  None, None)

-----------------------------------------------------------------------------
(* MarketplaceManager *)

MP_validateEthereumAddress(address, fieldName) ==
    Check(validateEthereumAddress(address),
          ValidationError("Invalid " \o fieldName \o " format"))

MP_validateId(id, fieldName) ==
    Check(~(Len(id) = 0 \/ IsBlank(id)), ValidationError(fieldName \o " is required"))

\* utils.validatePositive throws a plain Error
validatePositive(value, fieldName) ==
    Check(~(value <= 0), PlainError(fieldName \o " must be positive"))

validateCreateListingRequest(request) ==
    FirstError(<<MP_validateId(request.nft_id, "nft_id"),
                 MP_validateEthereumAddress(request.seller, "seller"),
                 validatePositive(request.price, "price"),
                 Check(~(Len(request.currency) = 0 \/ IsBlank(request.currency)),
                       ValidationError("Currency is required"))>>)

GoodCreateListingRequest ==
    [nft_id |-> <<"n", "1">>, seller |-> GoodAddress, price |-> 7,
     currency |-> <<"E", "T", "H">>, expires_at |-> None]

CreateListingRequests ==
    {[GoodCreateListingRequest EXCEPT !.nft_id = i] : i \in Ids}
    \cup {[GoodCreateListingRequest EXCEPT !.seller = a] : a \in Addresses}
    \cup {[GoodCreateListingRequest EXCEPT !.price = n] : n \in Amounts}
    \cup {[GoodCreateListingRequest EXCEPT !.currency = x] : x \in {<< >>, <<" ">>}}
    \cup {[GoodCreateListingRequest EXCEPT !.seller = ShortAddress, !.price = 0]}

\* the request as createListing hands it to makeRequest; expires_at has no
\* value when the caller left it out
CreateListingData(request) ==
    << <<"nft_id", Some(request.nft_id)>>,
       <<"seller", Some(request.seller)>>,
       <<"price", Some(request.price)>>,
       <<"currency", Some(request.currency)>>,
       <<"expires_at", request.expires_at>> >>

MP_createListing(c) ==
    \E request \in CreateListingRequests :
        Operation(c, "marketplace", "createListing", "data", <<request>>,
                  validateCreateListingRequest(request),
                  "POST", <<"/", "marketplace", "/", "listings">>,
                  Some(CreateListingData(request)), None)

MP_getListing(c) ==
    \E listingId \in Ids :
        Operation(c, "marketplace", "getListing", "data", <<listingId>>,
                  MP_validateId(listingId, "listing_id"),
                  "GET", <<"/", "marketplace", "/", "listings", "/">> \o listingId,
                  None, None)

\* UpdateListingRequest objects: every field is optional
UpdateListingRequests ==
    {<< >>,
     << <<"price", Some(7)>> >>,
     << <<"price", Some(0)>> >>,
     << <<"price", Some(-1)>>, <<"currency", Some(<<"E", "T", "H">>)>> >>,
     << <<"price", None>>, <<"status", Some(<<"cancelled">>)>> >>}

MP_updateListing(c) ==
    \E listingId \in Ids, updates \in UpdateListingRequests :
        Operation(c, "marketplace", "updateListing", "data", <<listingId, updates>>,
                  MP_validateId(listingId, "listing_id"),
                  "PUT", <<"/", "marketplace", "/", "listings", "/">> \o listingId,
                  Some(updates), None)

MP_deleteListing(c) ==
    \E listingId \in Ids :
        Operation(c, "marketplace", "deleteListing", "void", <<listingId>>,
                  MP_validateId(listingId, "listing_id"),
                  "DELETE", <<"/", "marketplace", "/", "listings", "/">> \o listingId,
                  None, None)

MarketplaceListOptions ==
    {None,
     Some(<< <<"page", Some(1)>>, <<"limit", None>>, <<"seller", Some(GoodAddress)>> >>),
     Some(<< <<"buyer", Some(ShortAddress)>> >>),
     Some(<< <<"user", Some(NonHexAddress)>>, <<"nft_id", Some(<<"n", "1">>)>> >>),
     Some(<< <<"owner", Some(GoodAddress)>>, <<"contract_address", Some(GoodAddress)>> >>),
     Some(<< <<"min_price", Some(-1)>>, <<"max_price", Some(0)>>,
             <<"currency", Some(<<"E", "T", "H">>)>> >>),
     Some(<< <<"field", Some(<<"price">>)>>, <<"direction", Some(<<"desc">>)>> >>)}

\* the list and query operations of the marketplace: GET endpoint with the
\* parameters buildQueryParams keeps
MP_query(c, op, args, invalid, endpoint, options) ==
    Operation(c, "marketplace", op, "response", args, invalid, "GET", endpoint, None,
              Some(buildQueryParams(MarketplaceParamKeys, options)))

ListingsPath == <<"/", "marketplace", "/", "listings">>
SalesPath == <<"/", "marketplace", "/", "sales">>
TransfersPath == <<"/", "marketplace", "/", "transfers">>

MP_listListings(c) ==
    \E options \in MarketplaceListOptions :
        MP_query(c, "listListings", <<options>>, None, ListingsPath, options)

MP_getListingsBySeller(c) ==
    \E seller \in Addresses, options \in PaginationOptions :
        MP_query(c, "getListingsBySeller", <<seller, options>>,
                 MP_validateEthereumAddress(seller, "seller"),
                 ListingsPath, Spread(options, "seller", seller))

MP_getListingsByNFT(c) ==
    \E nftId \in Ids, options \in PaginationOptions :
        MP_query(c, "getListingsByNFT", <<nftId, options>>, MP_validateId(nftId, "nft_id"),
                 ListingsPath, Spread(options, "nft_id", nftId))

MP_buyNFT(c) ==
    \E listingId \in Ids, buyer \in Addresses :
        Operation(c, "marketplace", "buyNFT", "data", <<listingId, buyer>>,
                  FirstError(<<MP_validateId(listingId, "listing_id"),
                               MP_validateEthereumAddress(buyer, "buyer")>>),
                  "POST",
                  <<"/", "marketplace", "/", "listings", "/">> \o listingId \o <<"/", "buy">>,
                  Some(<< <<"buyer", Some(buyer)>> >>), None)

MP_cancelListing(c) ==
    \E listingId \in Ids :
        Operation(c, "marketplace", "cancelListing", "void", <<listingId>>,
                  MP_validateId(listingId, "listing_id"), "POST",
                  <<"/", "marketplace", "/", "listings", "/">> \o listingId
                      \o <<"/", "cancel">>,
                  None, None)

MP_getSales(c) ==
    \E options \in MarketplaceListOptions :
        MP_query(c, "getSales", <<options>>, None, SalesPath, options)

MP_getSalesByNFT(c) ==
    \E nftId \in Ids, options \in PaginationOptions :
        MP_query(c, "getSalesByNFT", <<nftId, options>>, MP_validateId(nftId, "nft_id"),
                 SalesPath, Spread(options, "nft_id", nftId))

MP_getSalesByBuyer(c) ==
    \E buyer \in Addresses, options \in PaginationOptions :
        MP_query(c, "getSalesByBuyer", <<buyer, options>>,
                 MP_validateEthereumAddress(buyer, "buyer"),
                 SalesPath, Spread(options, "buyer", buyer))

MP_getSalesBySeller(c) ==
    \E seller \in Addresses, options \in PaginationOptions :
        MP_query(c, "getSalesBySeller", <<seller, options>>,
                 MP_validateEthereumAddress(seller, "seller"),
                 SalesPath, Spread(options, "seller", seller))

MP_getTransfers(c) ==
    \E options \in MarketplaceListOptions :
        MP_query(c, "getTransfers", <<options>>, None, TransfersPath, options)

MP_getTransfersByNFT(c) ==
    \E nftId \in Ids, options \in PaginationOptions :
        MP_query(c, "getTransfersByNFT", <<nftId, options>>, MP_validateId(nftId, "nft_id"),
                 TransfersPath, Spread(options, "nft_id", nftId))

MP_getTransfersByUser(c) ==
    \E user \in Addresses, options \in PaginationOptions :
        MP_query(c, "getTransfersByUser", <<user, options>>,
                 MP_validateEthereumAddress(user, "user"),
                 TransfersPath, Spread(options, "user", user))

MP_getMarketplaceStats(c) ==
    Operation(c, "marketplace", "getMarketplaceStats", "data", << >>, None, "GET",
              <<"/", "marketplace", "/", "stats">>, None, None)

MP_getSaleStats(c) ==
    Operation(c, "marketplace", "getSaleStats", "data", << >>, None, "GET",
              <<"/", "marketplace", "/", "sales", "/", "stats">>, None, None)

-----------------------------------------------------------------------------
(* retryWithBackoff called directly with a caller's fn and initial delay *)

InitialDelays == {1, 3, DefaultInitialDelay}
FnValue == [NoJson EXCEPT !.data = Some("value")]
FnErrors == {PlainError("boom"), ValidationError("bad input")}

\* retryWithBackoff(fn, maxRetries?, initialDelay?)
RetryWithBackoff(c) ==
    /\ call[c].pc = "idle"
    /\ \E maxRetries \in {None} \cup {Some(n) : n \in RetryCounts},
          initialDelay \in {None} \cup {Some(d) : d \in InitialDelays} :
         call' = [call EXCEPT ![c] =
                    retryWithBackoff(
                        [IdleCall EXCEPT !.manager = "utils", !.op = "retryWithBackoff",
                                         !.envelope = "response"],
                        IF IsSome(maxRetries) THEN Val(maxRetries) ELSE DefaultMaxRetries,
                        IF IsSome(initialDelay) THEN Val(initialDelay)
                        ELSE DefaultInitialDelay)]
    /\ UNCHANGED <<facade, nftManager, marketplaceManager>>

\* the caller's fn settles: it resolves, or rejects with one of its errors
FnSettles(c) ==
    /\ call[c].pc = "pending"
    /\ call[c].manager = "utils"
    /\ \E settlement \in {Resolved(FnValue)} \cup {Rejected(e) : e \in FnErrors} :
         call' = [call EXCEPT ![c] = Attempt(call[c], settlement)]
    /\ UNCHANGED <<facade, nftManager, marketplaceManager>>

-----------------------------------------------------------------------------
(* The specification *)

Init ==
    /\ facade = NoFacade
    /\ nftManager = NoManager
    /\ marketplaceManager = NoManager
    /\ call = [c \in Calls |-> IdleCall]

Next ==
    \/ Construct
    \/ Create
    \/ FromEnvironment
    \/ \E c \in Calls :
        \/ NFT_create(c)
        \/ NFT_get(c)
        \/ NFT_update(c)
        \/ NFT_delete(c)
        \/ NFT_list(c)
        \/ NFT_getByOwner(c)
        \/ NFT_getByContract(c)
        \/ NFT_stats(c)
        \/ NFT_createCollection(c)
        \/ NFT_getCollection(c)
        \/ NFT_listCollections(c)
        \/ NFT_getCollectionStats(c)
        \/ MP_createListing(c)
        \/ MP_getListing(c)
        \/ MP_updateListing(c)
        \/ MP_deleteListing(c)
        \/ MP_listListings(c)
        \/ MP_getListingsBySeller(c)
        \/ MP_getListingsByNFT(c)
        \/ MP_buyNFT(c)
        \/ MP_cancelListing(c)
        \/ MP_getSales(c)
        \/ MP_getSalesByNFT(c)
        \/ MP_getSalesByBuyer(c)
        \/ MP_getSalesBySeller(c)
        \/ MP_getTransfers(c)
        \/ MP_getTransfersByNFT(c)
        \/ MP_getTransfersByUser(c)
        \/ MP_getMarketplaceStats(c)
        \/ MP_getSaleStats(c)
        \/ RetryWithBackoff(c)
        \/ FetchCompletes(c)
        \/ FnSettles(c)
        \/ TimerFires(c)

Spec == Init /\ [][Next]_vars

\* Every dispatch that was started completes (fetch answers, throws or is
\* aborted by its timeout signal; the caller's fn settles) and every backoff
\* timer that was armed fires
Fairness ==
    \A c \in Calls :
        /\ WF_vars(FetchCompletes(c))
        /\ WF_vars(FnSettles(c))
        /\ WF_vars(TimerFires(c))

\* every configuration and every outcome of a dispatch, for one reading and
\* one writing operation of each manager and for retryWithBackoff called
\* directly: the retry loop is the same for every operation
NextFair ==
    \/ Construct
    \/ \E c \in Calls :
        \/ NFT_create(c)
        \/ NFT_get(c)
        \/ MP_buyNFT(c)
        \/ MP_getListing(c)
        \/ RetryWithBackoff(c)
        \/ FetchCompletes(c)
        \/ FnSettles(c)
        \/ TimerFires(c)

SpecFair == Init /\ [][NextFair]_vars /\ Fairness

-----------------------------------------------------------------------------
(* Two calls issued concurrently on the managers of one facade *)

ConcurrentCalls == {"c1", "c2"}

SharedConfigurations ==
    {[apiKey |-> "sk_live", baseUrl |-> None, timeout |-> None, retries |-> Some(r)] :
        r \in 1..MaxSharedRetries}

\* one success, one HTTP failure and one transport failure
ConcurrentOutcomes ==
    {Response(200, ObjectBody("{data}", None, None, Some("payload"))),
     Response(503, ObjectBody("{error}", Some("E1"), None, None)),
     Thrown("TypeError", "fetch failed")}

ConstructShared == \E options \in SharedConfigurations : NewFacade(options)

\* fetch() of call c completes with one of the outcomes above
FetchCompletesConcurrently(c) ==
    /\ FetchCompletes(c)
    /\ Val(call'[c].lastOutcome) \in ConcurrentOutcomes

InitConcurrent ==
    /\ facade = NoFacade
    /\ nftManager = NoManager
    /\ marketplaceManager = NoManager
    /\ call = [c \in ConcurrentCalls |-> IdleCall]

NextConcurrent ==
    \/ ConstructShared
    \/ \E c \in ConcurrentCalls :
        \/ NFT_get(c)
        \/ NFT_delete(c)
        \/ MP_getListing(c)
        \/ MP_cancelListing(c)
        \/ FetchCompletesConcurrently(c)
        \/ TimerFires(c)

SpecConcurrent == InitConcurrent /\ [][NextConcurrent]_vars

-----------------------------------------------------------------------------
(* Facades whose API key tells which configuration they were given *)

FacadeConfigurations ==
    {[apiKey |-> "sk_absent", baseUrl |-> None, timeout |-> None, retries |-> None],
     [apiKey |-> "sk_zero", baseUrl |-> None, timeout |-> Some(0), retries |-> Some(0)],
     [apiKey |-> "sk_defaults", baseUrl |-> Some(DefaultBaseUrl),
      timeout |-> Some(DefaultTimeout), retries |-> Some(DefaultRetries)],
     [apiKey |-> "sk_once", baseUrl |-> Some(<<"http:", "/", "/", "h", "/">>),
      timeout |-> Some(5000), retries |-> Some(1)],
     [apiKey |-> "sk_twice", baseUrl |-> Some(<<"http:", "/", "/", "h">>),
      timeout |-> Some(1), retries |-> Some(2)],
     [apiKey |-> "sk_negative", baseUrl |-> Some(<< >>),
      timeout |-> Some(-1), retries |-> Some(-1)]}

ConstructConfigured == \E options \in FacadeConfigurations : NewFacade(options)

NextConfigured ==
    \/ ConstructConfigured
    \/ \E c \in Calls :
        \/ NFT_get(c)
        \/ NFT_delete(c)
        \/ MP_getListing(c)
        \/ MP_cancelListing(c)
        \/ FetchCompletes(c)
        \/ TimerFires(c)

SpecConfigured == Init /\ [][NextConfigured]_vars

-----------------------------------------------------------------------------
(* The managers constructed by the caller, without a facade *)

\* new NFTManager(apiKey, baseUrl, timeout, retries)
NewNFTManager ==
    /\ ~nftManager.constructed
    /\ \E retries \in RetryCounts :
         nftManager' = NewManager("sk_live", DefaultBaseUrl, DefaultTimeout, retries)
    /\ UNCHANGED <<facade, marketplaceManager, call>>

\* new MarketplaceManager(apiKey, baseUrl, timeout, retries)
NewMarketplaceManager ==
    /\ ~marketplaceManager.constructed
    /\ \E retries \in RetryCounts :
         marketplaceManager' = NewManager("sk_live", DefaultBaseUrl, DefaultTimeout, retries)
    /\ UNCHANGED <<facade, nftManager, call>>

NextManagers ==
    \/ NewNFTManager
    \/ NewMarketplaceManager
    \/ \E c \in Calls :
        \/ NFT_get(c)
        \/ NFT_create(c)
        \/ MP_getListing(c)
        \/ MP_buyNFT(c)
        \/ FetchCompletes(c)
        \/ TimerFires(c)

SpecManagers == Init /\ [][NextManagers]_vars

-----------------------------------------------------------------------------
(* The pure utilities, each applied once to an input of a bounded set *)

\* a synchronous utility ran on `args` and handed back `return`
UtilityCall(op, args, return) ==
    [IdleCall EXCEPT !.pc = "returned", !.manager = "utils", !.op = op,
                     !.args = args, !.return = return]

LowerCaseAddress == <<"0", "x", "a", "b", "c", "d", "e", "f">> \o HexDigits(AddrHexLen - 6)
UpperCaseAddress == <<"0", "x", "A", "B", "C", "D", "E", "F">> \o HexDigits(AddrHexLen - 6)
WellFormedAddresses == {GoodAddress, MixedCaseAddress, LowerCaseAddress, UpperCaseAddress}

\* a well-formed address and the strings one slip away from it
Malformations(a) ==
    {a,
     SubSeq(a, 1, Len(a) - 1), a \o <<"0">>, a \o <<"\n">>, <<" ">> \o a,
     SubSeq(a, 3, Len(a)), SubSeq(a, 2, Len(a)),
     [a EXCEPT ![1] = "1"], [a EXCEPT ![2] = "X"],
     [a EXCEPT ![3] = "g"], [a EXCEPT ![20] = "G"], [a EXCEPT ![10] = " "],
     [a EXCEPT ![Len(a)] = "z"]}

AddressInputs ==
    UNION {Malformations(a) : a \in WellFormedAddresses} \cup {<< >>, <<"0", "x">>}

\* validateEthereumAddress(address)
ValidateEthereumAddress(c) ==
    /\ call[c].pc = "idle"
    /\ \E address \in AddressInputs :
         call' = [call EXCEPT ![c] =
                    UtilityCall("validateEthereumAddress", <<address>>,
                                Returned(validateEthereumAddress(address)))]
    /\ UNCHANGED <<facade, nftManager, marketplaceManager>>

LowerHexDigits == <<"0", "1", "2", "3", "4", "5", "6", "7", "8", "9",
                    "a", "b", "c", "d", "e", "f">>
UpperHexDigits == <<"0", "1", "2", "3", "4", "5", "6", "7", "8", "9",
                    "A", "B", "C", "D", "E", "F">>

\* the code unit of a character of the payloads and secrets used here
CharCode(ch) ==
    CASE ch = "{" -> 123 [] ch = "}" -> 125 [] ch = "k" -> 107
      [] ch = "1" -> 49  [] ch = "2" -> 50  [] OTHER -> 0

RECURSIVE Absorb(_, _)
Absorb(h, s) ==
    IF Len(s) = 0 THEN h ELSE Absorb((h * 31 + CharCode(Head(s))) % 65521, Tail(s))

\* utils.createWebhookSignature: the HMAC-SHA256 of the payload under the secret
\* as lower-case hex. The digest is replaced by a small keyed checksum; what is
\* kept is that the result is a string of SignatureHexLen lower-case hex digits
\* fixed by payload and secret, and different for the different pairs used here.
createWebhookSignature(payload, secret) ==
    LET h == Absorb(Absorb(7, secret), payload)
    IN  [i \in 1..SignatureHexLen |->
            LowerHexDigits[(((h \div i) + (h * i) + i) % 16) + 1]]

HexValue(ch) ==
    CHOOSE v \in 0..15 : ch \in {LowerHexDigits[v + 1], UpperHexDigits[v + 1]}

\* Buffer.from(s, 'hex'): one byte per pair of hex digits of either case; the
\* decoding stops at the first pair that is not two hex digits, and a last
\* single character is dropped
RECURSIVE BufferFromHex(_)
BufferFromHex(s) ==
    IF Len(s) < 2 \/ s[1] \notin HexChars \/ s[2] \notin HexChars THEN << >>
    ELSE <<16 * HexValue(s[1]) + HexValue(s[2])>> \o BufferFromHex(SubSeq(s, 3, Len(s)))

\* the RangeError crypto.timingSafeEqual throws
RangeError(message) == MkError("RangeError", None, message)

\* crypto.timingSafeEqual(a, b): throws when the byte lengths differ
timingSafeEqual(a, b) ==
    IF Len(a) # Len(b)
    THEN Threw(RangeError("Input buffers must have the same byte length"))
    ELSE Returned(a = b)

\* utils.verifyWebhookSignature(payload, signature, secret)
verifyWebhookSignature(payload, signature, secret) ==
    LET expectedSignature == createWebhookSignature(payload, secret)
    IN  timingSafeEqual(BufferFromHex(signature), BufferFromHex(expectedSignature))

WebhookPayloads == {<< >>, <<"{", "}">>, <<"{", "1", "}">>}
WebhookSecrets == {<<"k", "1">>, <<"k", "2">>}

ToUpperHex(s) ==
    [i \in 1..Len(s) |->
        IF s[i] \in HexChars THEN UpperHexDigits[HexValue(s[i]) + 1] ELSE s[i]]

\* the signatures a sender may present for a payload: the right one, those of
\* another payload or secret, and the right one altered, cut, extended,
\* re-cased or replaced by text that is not hex
SignatureInputs(payload, secret) ==
    LET s == createWebhookSignature(payload, secret)
    IN  {s, ToUpperHex(s),
         [s EXCEPT ![1] = IF s[1] = "0" THEN "1" ELSE "0"],
         [s EXCEPT ![Len(s)] = IF s[Len(s)] = "0" THEN "1" ELSE "0"],
         SubSeq(s, 1, Len(s) - 2), SubSeq(s, 1, Len(s) - 1),
         s \o <<"0", "0">>, s \o <<"0">>, s \o <<"z", "z">>,
         [s EXCEPT ![1] = "z"], << >>, <<"s", "i", "g">>}
        \cup {createWebhookSignature(p, k) : p \in WebhookPayloads, k \in WebhookSecrets}

\* verifyWebhookSignature(payload, signature, secret)
VerifyWebhookSignature(c) ==
    /\ call[c].pc = "idle"
    /\ \E payload \in WebhookPayloads, secret \in WebhookSecrets :
         \E signature \in SignatureInputs(payload, secret) :
            call' = [call EXCEPT ![c] =
                        UtilityCall("verifyWebhookSignature",
                                    <<payload, signature, secret>>,
                                    verifyWebhookSignature(payload, signature, secret))]
    /\ UNCHANGED <<facade, nftManager, marketplaceManager>>

\* the payloads the operations hand to makeRequest once validation has passed
DomainPayloads ==
    {CreateNFTData(r) : r \in {q \in CreateNFTRequests : validateCreateRequest(q) = None}}
    \cup UpdateNFTRequests
    \cup {CreateCollectionData(r) :
            r \in {q \in CreateCollectionRequests : validateCreateCollectionRequest(q) = None}}
    \cup {CreateListingData(r) :
            r \in {q \in CreateListingRequests : validateCreateListingRequest(q) = None}}
    \cup UpdateListingRequests
    \cup {<< <<"buyer", Some(buyer)>> >> : buyer \in {GoodAddress, MixedCaseAddress}}

\* jsonDeserialize(jsonSerialize(payload))
JsonRoundTrip(c) ==
    /\ call[c].pc = "idle"
    /\ \E payload \in DomainPayloads :
         call' = [call EXCEPT ![c] =
                    UtilityCall("jsonRoundTrip", <<payload>>,
                                Returned(jsonDeserialize(jsonSerialize(payload))))]
    /\ UNCHANGED <<facade, nftManager, marketplaceManager>>

InitUtils ==
    /\ facade = NoFacade
    /\ nftManager = NoManager
    /\ marketplaceManager = NoManager
    /\ call = [c \in Calls |-> IdleCall]

NextUtils ==
    \E c \in Calls :
        \/ ValidateEthereumAddress(c)
        \/ VerifyWebhookSignature(c)
        \/ JsonRoundTrip(c)

SpecUtils == InitUtils /\ [][NextUtils]_vars

-----------------------------------------------------------------------------
(* Properties *)

ManagerCalls == {c \in Calls : call[c].manager \in {"nft", "marketplace"}}

\* the calls retryWithBackoff has been entered for
StartedCalls == {c \in Calls : call[c].pc \in {"pending", "retrying", "success", "failed"}}

IsHttpFailure(outcome) == outcome.type = "response" /\ ~IsOk(outcome.status)

\* a success status whose body is empty or parses as JSON
IsUsableSuccess(outcome) ==
    /\ outcome.type = "response"
    /\ IsOk(outcome.status)
    /\ (outcome.body.raw = "" \/ IsSome(outcome.body.json))

LastIsHttpFailure(c) ==
    IsSome(call[c].lastOutcome) /\ IsHttpFailure(Val(call[c].lastOutcome))

\* C1: a non-success HTTP status ends the call at once: after such an answer the
\* call is Failed; it is not Retrying and no further dispatch is in flight.
C1_HttpFailureIsFinal ==
    \A c \in ManagerCalls : LastIsHttpFailure(c) => call[c].pc = "failed"

\* the kind the status table gives a non-success status
TableKind(status) ==
    CASE status = 400 -> "ValidationError"
      [] status \in {401, 403} -> "AuthenticationError"
      [] status = 404 -> "NotFoundError"
      [] status = 429 -> "RateLimitError"
      [] OTHER -> "ServerError"

MappedStatuses == {400, 401, 403, 404, 429, 500, 502, 503, 504}

\* C2: the error surfaced for a non-success HTTP response has the kind of the
\* status table, and for an unmapped status a message carrying the status code.
C2_StatusTableKind ==
    \A c \in ManagerCalls :
        (call[c].pc = "failed" /\ LastIsHttpFailure(c)) =>
            LET outcome == Val(call[c].lastOutcome)
                error   == call[c].return.error
            IN  /\ call[c].return.state = "threw"
                /\ error.name = TableKind(outcome.status)
                /\ outcome.status \notin MappedStatuses =>
                      error.message = "Unexpected response: " \o StatusText(outcome.status)
                                      \o " " \o ErrorMessage(outcome.body)

\* C3: with retry count N >= 1, fewer than N failures never end the call, and a
\* dispatch that succeeds (after k < N failures) ends it in Success on that
\* dispatch, number k + 1, with the response of that dispatch; so N-1 transport
\* failures followed by a success give Success after exactly N dispatches.
C3_SucceedsOnNthDispatch ==
    \A c \in StartedCalls :
        LET k == call[c] IN
        k.maxRetries >= 1 =>
            /\ k.pc = "failed" => k.attempts >= k.maxRetries
            /\ k.pc \in {"pending", "retrying"} => k.attempts < k.maxRetries
            /\ k.pc = "pending" => k.dispatches = k.attempts + 1
            /\ k.pc = "retrying" => k.dispatches = k.attempts
            /\ (IsSome(k.lastSettlement) /\ Val(k.lastSettlement).ok) =>
                  /\ k.pc = "success"
                  /\ k.dispatches = k.attempts + 1
                  /\ k.promise = k.lastSettlement
            /\ (c \in ManagerCalls /\ IsSome(k.lastOutcome)
                  /\ IsUsableSuccess(Val(k.lastOutcome))) =>
                  /\ k.pc = "success"
                  /\ Val(k.promise).ok
                  /\ Val(k.promise).value =
                        IF Val(k.lastOutcome).body.raw = "" THEN EmptyObject
                        ELSE Val(Val(k.lastOutcome).body.json)

\* a call with retry count 3 whose first two dispatches threw and whose third
\* was answered with a success
C3_Witness ==
    \E c \in ManagerCalls :
        /\ call[c].pc = "success"
        /\ call[c].maxRetries = 3
        /\ call[c].attempts = 2
        /\ call[c].allThrown
        /\ call[c].dispatches = 3
        /\ Val(call[c].lastOutcome).status = 200
        /\ Val(call[c].promise).value.data = Some("payload")

\* C4: with retry count N >= 1 a call is never dispatched more than N times; it
\* is Failed exactly when N dispatches have failed, and the error it surfaces is
\* the one the last dispatch produced.
C4_FailsAfterExactlyN ==
    \A c \in StartedCalls :
        LET k == call[c] IN
        k.maxRetries >= 1 =>
            /\ k.dispatches <= k.maxRetries
            /\ k.pc = "failed" =>
                  /\ k.dispatches = k.maxRetries
                  /\ k.attempts = k.maxRetries
                  /\ IsSome(k.lastSettlement)
                  /\ ~Val(k.lastSettlement).ok
                  /\ k.promise = k.lastSettlement
                  /\ k.return = Threw(Val(k.lastSettlement).error)
                  /\ c \in ManagerCalls =>
                        k.return.error = sendRequest(Val(k.lastOutcome)).error

\* a call with retry count 3 that failed on its third dispatch, the last
\* failure being a 503
C4_Witness ==
    \E c \in ManagerCalls :
        /\ call[c].pc = "failed"
        /\ call[c].maxRetries = 3
        /\ call[c].dispatches = 3
        /\ Val(call[c].lastOutcome).status = 503

\* C5: the delays one call of retryWithBackoff schedules are D, 2D, 4D, ... in
\* that order, one after each failed attempt but the last; none is scheduled
\* after the final failed attempt or after a success.
C5_BackoffDoubles ==
    \A c \in StartedCalls :
        LET k == call[c] IN
        /\ \A i \in 1..Len(k.delays) :
              k.delays[i] = IF i = 1 THEN k.initialDelay ELSE 2 * k.delays[i - 1]
        /\ Len(k.delays) = IF k.pc = "failed" THEN k.attempts - 1 ELSE k.attempts

\* three retries with initial delay 3, and a failed call that scheduled no
\* delay after its last attempt
C5_Witness ==
    \E c \in Calls :
        /\ call[c].manager = "utils"
        /\ call[c].pc = "failed"
        /\ call[c].attempts = 4
        /\ call[c].delays = <<3, 6, 12>>

\* C6: a call whose every dispatch threw (timeout or connection failure) is
\* dispatched as often as the retry count allows and then surfaces a
\* NetworkError with code NETWORK_ERROR.
C6_TransportFailureIsNetwork ==
    \A c \in ManagerCalls :
        LET k == call[c] IN
        (k.pc = "failed" /\ k.allThrown) =>
            /\ k.dispatches = IF k.maxRetries >= 1 THEN k.maxRetries ELSE 1
            /\ k.return.state = "threw"
            /\ k.return.error.name = "NetworkError"
            /\ k.return.error.code = Some("NETWORK_ERROR")

\* three timeouts or connection failures in a row with retry count 3
C6_Witness ==
    \E c \in ManagerCalls :
        /\ call[c].pc = "failed"
        /\ call[c].maxRetries = 3
        /\ call[c].allThrown
        /\ call[c].dispatches = 3
        /\ IsTimeout(Val(call[c].lastOutcome))

\* a string that is empty or white space only
Blank(text) == Len(text) = 0 \/ IsBlank(text)

IdOperations ==
    {"get", "update", "delete", "getCollection", "getCollectionStats", "getListing",
     "updateListing", "deleteListing", "cancelListing", "getListingsByNFT",
     "getSalesByNFT", "getTransfersByNFT"}

AddressOperations ==
    {"getByOwner", "getByContract", "getListingsBySeller", "getSalesByBuyer",
     "getSalesBySeller", "getTransfersByUser"}

\* some field the operation validates is invalid in the arguments of call k
InvalidArguments(k) ==
    CASE k.op = "create" ->
            \/ ~validateEthereumAddress(k.args[1].contract_address)
            \/ ~validateTokenId(k.args[1].token_id)
            \/ ~validateEthereumAddress(k.args[1].owner)
            \/ ~validateMetadata(k.args[1].metadata)
      [] k.op = "createCollection" ->
            \/ Blank(k.args[1].name)
            \/ Blank(k.args[1].symbol)
            \/ Blank(k.args[1].description)
            \/ ~validateEthereumAddress(k.args[1].contract_address)
            \/ ~validateEthereumAddress(k.args[1].owner)
            \/ k.args[1].total_supply <= 0
      [] k.op = "createListing" ->
            \/ Blank(k.args[1].nft_id)
            \/ ~validateEthereumAddress(k.args[1].seller)
            \/ k.args[1].price <= 0
            \/ Blank(k.args[1].currency)
      [] k.op = "buyNFT" -> Blank(k.args[1]) \/ ~validateEthereumAddress(k.args[2])
      [] k.op \in IdOperations -> Blank(k.args[1])
      [] k.op \in AddressOperations -> ~validateEthereumAddress(k.args[1])
      [] OTHER -> FALSE

InvokedManagerCalls == {c \in ManagerCalls : call[c].pc # "idle"}

\* C7: an operation given an invalid validated field fails before anything is
\* dispatched: no request is built, the transport is never invoked, no attempt
\* is counted and no retry is scheduled.
C7_InvalidInputNeverDispatched ==
    \A c \in InvokedManagerCalls :
        InvalidArguments(call[c]) =>
            /\ call[c].pc = "rejected"
            /\ call[c].return.state = "threw"
            /\ call[c].request = NoRequest
            /\ call[c].dispatches = 0
            /\ call[c].attempts = 0
            /\ call[c].delays = << >>

\* create with token id "abc", all other fields valid, rejected
C7_Witness ==
    \E c \in ManagerCalls :
        /\ call[c].op = "create"
        /\ call[c].args[1] = [GoodCreateNFTRequest EXCEPT !.token_id = <<"a", "b", "c">>]
        /\ call[c].pc = "rejected"
        /\ call[c].dispatches = 0

\* the only invalid field of the call is its non-positive price or total supply
OnlyAmountInvalid(k) ==
    CASE k.op = "createListing" ->
            /\ k.args[1].price <= 0
            /\ ~InvalidArguments([k EXCEPT !.args[1].price = 1])
      [] k.op = "createCollection" ->
            /\ k.args[1].total_supply <= 0
            /\ ~InvalidArguments([k EXCEPT !.args[1].total_supply = 1])
      [] OTHER -> FALSE

\* C8: createListing with a non-positive price and createCollection with a
\* non-positive total supply raise a ValidationError (code VALIDATION_ERROR)
\* before any dispatch.
C8_NonPositiveIsValidationError ==
    \A c \in InvokedManagerCalls :
        OnlyAmountInvalid(call[c]) =>
            /\ call[c].dispatches = 0
            /\ call[c].return.state = "threw"
            /\ call[c].return.error.name = "ValidationError"
            /\ call[c].return.error.code = Some("VALIDATION_ERROR")

AddressFields == {"owner", "contract_address", "seller", "buyer", "user"}
AmountFields == {"price", "total_supply"}

\* C9: every dispatched request carries only well-formed addresses and token
\* ids and strictly positive prices and supplies, in its body and in its query.
C9_DispatchedFieldsWellFormed ==
    \A c \in ManagerCalls :
        IsSome(call[c].request) =>
            LET request == Val(call[c].request)
                body    == IF IsSome(request.options.body)
                           THEN Val(request.options.body) ELSE << >>
                query   == request.url.query
            IN  /\ \A i \in 1..Len(body) :
                      /\ body[i][1] \in AddressFields =>
                            validateEthereumAddress(Val(body[i][2]))
                      /\ body[i][1] = "token_id" => validateTokenId(Val(body[i][2]))
                      /\ body[i][1] \in AmountFields => Val(body[i][2]) > 0
                /\ \A i \in 1..Len(query) :
                      query[i][1] \in AddressFields => validateEthereumAddress(query[i][2])

Taxonomy ==
    {"NetworkError", "ValidationError", "AuthenticationError", "NotFoundError",
     "RateLimitError", "ServerError", "NFTError", "MarketplaceError", "CollectionError"}

IsTaxonomyError(error) == error.name \in Taxonomy /\ IsSome(error.code)

\* C10: every error raised by constructing the facade or by a manager operation
\* is an error of the taxonomy with its code, and an error the status table
\* classified is surfaced with the kind it was given.
C10_EveryErrorIsTyped ==
    /\ facade.state = "failed" => IsTaxonomyError(Val(facade.error))
    /\ \A c \in ManagerCalls :
          call[c].return.state = "threw" =>
            /\ IsTaxonomyError(call[c].return.error)
            /\ (call[c].pc = "failed" /\ LastIsHttpFailure(c)) =>
                  call[c].return.error.name =
                      handleHttpError(Val(call[c].lastOutcome).status, "").name

\* a response with a success status
IsSuccessStatus(outcome) == outcome.type = "response" /\ IsOk(outcome.status)

\* C11: a dispatch answered with a success status ends the call in Success at
\* once; the result is the parsed body, or the empty result for an empty body.
C11_SuccessStatusIsSuccess ==
    \A c \in ManagerCalls :
        LET k == call[c] IN
        (IsSome(k.lastOutcome) /\ IsSuccessStatus(Val(k.lastOutcome))) =>
            /\ k.pc = "success"
            /\ IsSome(k.promise)
            /\ Val(k.promise).ok
            /\ Val(k.lastOutcome).body.raw = "" => Val(k.promise).value = EmptyObject
            /\ IsSome(Val(k.lastOutcome).body.json) =>
                  Val(k.promise).value = Val(Val(k.lastOutcome).body.json)

\* the first of the two fields that is present and not empty
FirstField(json) ==
    IF IsSome(json.error) /\ Val(json.error) # "" THEN json.error
    ELSE IF IsSome(json.message) /\ Val(json.message) # "" THEN json.message
    ELSE None

\* the message as the chain error, message, raw text, "Unknown error" gives it
ChainedMessage(body) ==
    LET field == IF IsSome(body.json) /\ ~Val(body.json).isNull
                 THEN FirstField(Val(body.json)) ELSE None
    IN  IF IsSome(field) THEN Val(field)
        ELSE IF body.raw # "" THEN body.raw ELSE "Unknown error"

\* the message as the two separate fallbacks give it: a body that parses to a
\* value other than null never falls back to its raw text
ParsedOrRawMessage(body) ==
    IF IsSome(body.json) /\ ~Val(body.json).isNull
    THEN (IF IsSome(FirstField(Val(body.json)))
          THEN Val(FirstField(Val(body.json))) ELSE "Unknown error")
    ELSE (IF body.raw # "" THEN body.raw ELSE "Unknown error")

\* the error raised for the latest dispatch of call c carries message text `text`
\* after the label of its status, and is an error of the taxonomy
RaisedWithMessage(c, text) ==
    /\ IsSome(call[c].lastSettlement)
    /\ ~Val(call[c].lastSettlement).ok
    /\ Val(call[c].lastSettlement).error.name \in Taxonomy
    /\ IsSome(Val(call[c].lastSettlement).error.code)
    /\ Val(call[c].lastSettlement).error.message =
          handleHttpError(Val(call[c].lastOutcome).status, text).message

\* C12 as stated: for every non-success response the message is the body's
\* error field, else its message field, else the raw body text, else
\* "Unknown error", and an error of the taxonomy is raised.
C12_MessageChain ==
    \A c \in ManagerCalls :
        LastIsHttpFailure(c) =>
            RaisedWithMessage(c, ChainedMessage(Val(call[c].lastOutcome).body))

\* C12 as amended: a body that parses as JSON to anything but null gives its
\* error field, else its message field, else "Unknown error"; a body that does
\* not parse, or parses to null, gives its raw text, else "Unknown error"; an
\* error of the taxonomy carrying that message is raised in every case.
C12_MessageParsedOrRaw ==
    \A c \in ManagerCalls :
        LastIsHttpFailure(c) =>
            RaisedWithMessage(c, ParsedOrRawMessage(Val(call[c].lastOutcome).body))

\* a call that failed on its third dispatch, answered 400 with the body null
C12_Witness ==
    \E c \in ManagerCalls :
        /\ call[c].pc = "failed"
        /\ call[c].dispatches = 3
        /\ Val(call[c].lastOutcome).status = 400
        /\ Val(call[c].lastOutcome).body = NullBody
        /\ call[c].return.error.message = "Bad Request: null"

\* C13: a dispatch that timed out raises a NetworkError with the message
\* "Request timeout"; any other transport failure raises a NetworkError that
\* carries the message of the failure.
C13_TimeoutIsDistinct ==
    \A c \in ManagerCalls :
        LET k == call[c] IN
        (IsSome(k.lastOutcome) /\ Val(k.lastOutcome).type = "throw") =>
            /\ ~Val(k.lastSettlement).ok
            /\ Val(k.lastSettlement).error.name = "NetworkError"
            /\ Val(k.lastSettlement).error.message =
                  IF IsTimeout(Val(k.lastOutcome)) THEN "Request timeout"
                  ELSE Val(k.lastOutcome).exception.message

\* the list and query operations, and the options object each builds its
\* parameters from
OptionsOperations == {"list", "listCollections", "listListings", "getSales", "getTransfers"}

SpreadKey(op) ==
    CASE op = "getByOwner" -> "owner"
      [] op = "getByContract" -> "contract_address"
      [] op \in {"getListingsBySeller", "getSalesBySeller"} -> "seller"
      [] op = "getSalesByBuyer" -> "buyer"
      [] op \in {"getListingsByNFT", "getSalesByNFT", "getTransfersByNFT"} -> "nft_id"
      [] op = "getTransfersByUser" -> "user"
      [] OTHER -> ""

QueryOperations == OptionsOperations \cup {op \in AddressOperations \cup IdOperations :
                                               SpreadKey(op) # ""}

OptionsOf(k) ==
    IF k.op \in OptionsOperations
    THEN (IF IsSome(k.args[1]) THEN Val(k.args[1]) ELSE << >>)
    ELSE Put(IF IsSome(k.args[2]) THEN Val(k.args[2]) ELSE << >>,
             SpreadKey(k.op), Some(k.args[1]))

\* the query entries for the recognized options that are present, in the order
\* of the allow-list, each with its value as a string
PresentOptions(keys, options) ==
    LET entries == [i \in 1..Len(keys) |-> <<keys[i][2], Get(options, keys[i][1])>>]
        kept    == SelectSeq(entries, IsPresent)
    IN  [i \in 1..Len(kept) |-> QueryEntry(kept[i])]

\* C14: the query string of a list or query operation holds exactly the
\* recognized options whose value is present, 0 and "" included, and there is
\* no query string when no option is present.
C14_QueryHoldsPresentOptions ==
    \A c \in ManagerCalls :
        LET k == call[c] IN
        (k.op \in QueryOperations /\ IsSome(k.request)) =>
            LET keys     == IF k.manager = "nft" THEN NFTParamKeys ELSE MarketplaceParamKeys
                expected == PresentOptions(keys, OptionsOf(k))
                url      == Val(k.request).url
            IN  /\ url.query = expected
                /\ url.hasQuery = (Len(expected) > 0)

\* the operations that pass a request body to makeRequest
BodyOperations ==
    {"create", "update", "createCollection", "createListing", "updateListing", "buyNFT"}

HasHeader(headers, name) == \E i \in 1..Len(headers) : headers[i][1] = name

HeaderIs(headers, name, value) == \E i \in 1..Len(headers) : headers[i] = <<name, value>>

\* C15: every request a manager dispatches, at the first attempt and at every
\* retry, carries the bearer token of the configured API key and the three
\* identifying headers; the content type is JSON whenever there is a body, and
\* there is a body exactly when the operation supplied one.
C15_RequiredHeaders ==
    \A c \in ManagerCalls :
        LET k == call[c] IN
        IsSome(k.request) =>
            LET options == Val(k.request).options
            IN  /\ HeaderIs(options.headers, "Authorization", "Bearer " \o facade.apiKey)
                /\ HasHeader(options.headers, "X-API-Version")
                /\ HasHeader(options.headers, "X-Platform")
                /\ HasHeader(options.headers, "User-Agent")
                /\ IsSome(options.body) =>
                      HeaderIs(options.headers, "Content-Type", "application/json")
                /\ IsSome(options.body) <=> k.op \in BodyOperations

\* the third dispatch of a createListing, in flight with its body and headers
C15_Witness ==
    \E c \in ManagerCalls :
        /\ call[c].op = "createListing"
        /\ call[c].pc = "pending"
        /\ call[c].dispatches = 3
        /\ IsSome(Val(call[c].request).options.body)
        /\ HeaderIs(Val(call[c].request).options.headers, "Authorization", "Bearer sk_live")

\* C16: a facade and its managers exist only with a non-empty API key; a
\* construction that failed produced no manager and no call, and no request
\* carries an empty bearer token.
C16_EmptyKeyNeverConstructs ==
    /\ facade.state = "failed" =>
          /\ ~nftManager.constructed
          /\ ~marketplaceManager.constructed
          /\ \A c \in ManagerCalls : call[c].pc = "idle"
    /\ facade.state = "ready" =>
          /\ facade.apiKey # ""
          /\ nftManager.constructed /\ nftManager.apiKey = facade.apiKey
          /\ marketplaceManager.constructed /\ marketplaceManager.apiKey = facade.apiKey
    /\ \A c \in ManagerCalls :
          IsSome(call[c].request) =>
              ~HeaderIs(Val(call[c].request).options.headers, "Authorization", "Bearer ")

\* a construction with an empty API key has failed
C16_Witness ==
    /\ facade.state = "failed"
    /\ IsSome(facade.error)
    /\ ~nftManager.constructed
    /\ ~marketplaceManager.constructed

EndsWithSlash(url) == Len(url) > 0 /\ url[Len(url)] = "/"

\* C17: the base URL a manager holds, and the base of every URL it builds,
\* does not end with a slash.
C17_BaseUrlHasNoTrailingSlash ==
    /\ nftManager.constructed => ~EndsWithSlash(nftManager.baseUrl)
    /\ marketplaceManager.constructed => ~EndsWithSlash(marketplaceManager.baseUrl)
    /\ \A c \in ManagerCalls :
          IsSome(call[c].request) => ~EndsWithSlash(Val(call[c].request).url.base)

\* C18: once the facade is constructed, no step (a construction attempt, an
\* operation, a dispatch completing, a retry) changes the API key, base URL,
\* timeout or retry count the facade and its two managers hold.
C18_ConfigurationImmutable ==
    [][facade.state = "ready" =>
          /\ facade' = facade
          /\ nftManager' = nftManager
          /\ marketplaceManager' = marketplaceManager]_vars

\* a call that was retried and has failed on a facade configured with retry
\* count 2, the managers still holding what the facade was constructed with
C18_Witness ==
    /\ facade.state = "ready"
    /\ facade.retries = 2
    /\ nftManager = NewManager(facade.apiKey, facade.baseUrl, facade.timeout, 2)
    /\ marketplaceManager = nftManager
    /\ \E c \in ManagerCalls :
          /\ call[c].manager = "nft"
          /\ call[c].pc = "failed"
          /\ call[c].dispatches = 2

\* the calls, in either specification
AllCalls == DOMAIN call

\* the counters, delays and outcome of call record k as its own dispatches and
\* its own latest transport outcome determine them
OwnState(k) ==
    k.pc \in {"pending", "retrying", "success", "failed"} =>
        /\ k.maxRetries = facade.retries
        /\ k.initialDelay = DefaultInitialDelay
        /\ k.dispatches = k.attempts + (IF k.pc \in {"pending", "success"} THEN 1 ELSE 0)
        /\ k.attempts <= k.maxRetries
        /\ k.pc \in {"pending", "retrying"} => k.attempts < k.maxRetries
        /\ k.pc = "failed" => k.attempts = k.maxRetries
        /\ Len(k.delays) = (IF k.pc = "failed" THEN k.attempts - 1 ELSE k.attempts)
        /\ \A i \in 1..Len(k.delays) : k.delays[i] = k.initialDelay * (2 ^ (i - 1))
        /\ k.attempts = 0 /\ k.pc = "pending" => ~IsSome(k.lastOutcome)
        /\ IsSome(k.lastOutcome) => k.lastSettlement = Some(sendRequest(Val(k.lastOutcome)))
        /\ k.pc \in {"success", "failed"} =>
              /\ k.promise = k.lastSettlement
              /\ Val(k.promise).ok = (k.pc = "success")
        /\ k.pc = "failed" => k.return = Threw(Val(k.lastSettlement).error)
        /\ Val(k.request).options.method =
              (CASE k.op \in {"get", "getListing"} -> "GET"
                 [] k.op = "delete" -> "DELETE"
                 [] k.op = "cancelListing" -> "POST")

\* a step changes the record of one call at most
OneCallPerStep ==
    \A c \in AllCalls, d \in AllCalls :
        (c # d /\ call'[c] # call[c]) => call'[d] = call[d]

\* C19: under any interleaving of two calls on one facade, the attempt counter,
\* dispatch count, backoff delays and outcome of each call are those its own
\* transport outcomes give it, and no step of one call changes another.
C19_CallsAreIndependent ==
    /\ [](\A c \in AllCalls : OwnState(call[c]))
    /\ [][OneCallPerStep]_vars

\* one call failed after two dispatches while the other, issued on the same
\* manager, succeeded at its first
C19_Witness ==
    /\ DOMAIN call = ConcurrentCalls
    /\ call["c1"].manager = "nft" /\ call["c2"].manager = "nft"
    /\ call["c1"].pc = "failed" /\ call["c1"].attempts = 2 /\ call["c1"].dispatches = 2
    /\ call["c2"].pc = "success" /\ call["c2"].attempts = 0 /\ call["c2"].dispatches = 1

\* C20: while one call is waiting on the network or on a backoff delay, every
\* other call can take its next step: an idle one can be invoked, a pending one
\* can complete its dispatch, a retrying one can dispatch again.
C20_NoCallBlocksAnother ==
    \A c \in AllCalls, d \in AllCalls :
        (c # d /\ call[c].pc \in {"pending", "retrying"}) =>
            /\ call[d].pc = "idle" => ENABLED NFT_get(d) /\ ENABLED MP_getListing(d)
            /\ call[d].pc = "pending" => ENABLED FetchCompletesConcurrently(d)
            /\ call[d].pc = "retrying" => ENABLED TimerFires(d)

\* the second call went through a retry to its terminal state while the first
\* was still waiting for the answer to its first dispatch
C20_Witness ==
    /\ DOMAIN call = ConcurrentCalls
    /\ call["c1"].pc = "pending" /\ call["c1"].dispatches = 1
    /\ call["c2"].pc \in {"success", "failed"} /\ call["c2"].dispatches = 2

\* the utility calls of one function that have run
UtilityCalls(op) ==
    {c \in Calls : call[c].manager = "utils" /\ call[c].op = op /\ call[c].pc = "returned"}

Range(s) == {s[i] : i \in 1..Len(s)}

\* C21: validateEthereumAddress returns true for exactly the strings made of
\* "0x" followed by 40 hexadecimal characters of either case, returns false for
\* every other string (wrong length, missing prefix, a character that is not
\* hex), and never raises.
C21_AddressAcceptedIffWellFormed ==
    \A c \in UtilityCalls("validateEthereumAddress") :
        LET address == call[c].args[1]
        IN  /\ call[c].return.state = "returned"
            /\ call[c].return.value =
                 (/\ Len(address) >= 2
                  /\ SubSeq(address, 1, 2) = <<"0", "x">>
                  /\ Len(address) - 2 = 40
                  /\ Range(SubSeq(address, 3, Len(address))) \subseteq HexChars)

\* the mixed-case address was accepted
C21_Witness ==
    \E c \in UtilityCalls("validateEthereumAddress") :
        /\ call[c].args[1] = MixedCaseAddress
        /\ call[c].return = Returned(TRUE)

\* C22: verifyWebhookSignature(payload, createWebhookSignature(payload, secret),
\* secret) is true, and for every other signature string (another value,
\* another length, not hex) it returns false and does not raise.
C22_OnlyTheSignatureVerifies ==
    \A c \in UtilityCalls("verifyWebhookSignature") :
        LET payload   == call[c].args[1]
            signature == call[c].args[2]
            secret    == call[c].args[3]
        IN  /\ call[c].return.state = "returned"
            /\ call[c].return.value = (signature = createWebhookSignature(payload, secret))

\* reading any field of either object gives the same value (undefined included)
FieldForField(a, b) == \A key \in Keys(a) \cup Keys(b) : Get(a, key) = Get(b, key)

Settled(k) == k.pc \in {"success", "failed"}

\* the moves of one call between its states
CallTransitions ==
    {<<"idle", "rejected">>, <<"idle", "pending">>, <<"pending", "success">>,
     <<"pending", "retrying">>, <<"pending", "failed">>, <<"retrying", "pending">>}

\* a settled call holds its one settlement, and every backoff timer it armed
\* has fired: each of them was followed by a dispatch
SettledOnceNoTimer(k) ==
    /\ IsSome(k.promise) <=> Settled(k)
    /\ Settled(k) => /\ Len(k.delays) = k.dispatches - 1
                     /\ k.promise = k.lastSettlement
                     /\ (k.pc = "success") = Val(k.promise).ok

\* C24: a call moves Pending -> Success | Failed | Retrying -> Pending; once it
\* is Success or Failed it has been settled exactly once, its outcome does not
\* change any more, no backoff timer is pending and the transport is not
\* invoked for it again.
C24_SettledIsFinal ==
    /\ [](\A c \in Calls : SettledOnceNoTimer(call[c]))
    /\ [][\A c \in Calls :
            /\ call'[c].pc # call[c].pc => <<call[c].pc, call'[c].pc>> \in CallTransitions
            /\ Settled(call[c]) => call'[c] = call[c]
            /\ IsSome(call[c].promise) => call'[c].promise = call[c].promise]_vars

\* buyNFT failed on its third dispatch, after two backoff timers
C24_Witness ==
    \E c \in ManagerCalls :
        /\ call[c].op = "buyNFT"
        /\ call[c].pc = "failed"
        /\ call[c].dispatches = 3
        /\ Len(call[c].delays) = 2

\* C25: when every dispatch completes and every backoff timer fires, every call
\* that was dispatched reaches Success or Failed, whatever the retry count and
\* the outcomes of its dispatches.
C25_EveryCallSettles ==
    \A c \in Calls : (call[c].pc \in {"pending", "retrying"}) ~> Settled(call[c])

\* a call with four retries failed on its fourth dispatch
C25_Witness ==
    \E c \in ManagerCalls :
        /\ call[c].maxRetries = 4
        /\ call[c].pc = "failed"
        /\ call[c].dispatches = 4

\* the allow-list of option keys, each with the name of its query parameter
AllowList ==
    << <<"page", "page">>, <<"limit", "limit">>, <<"owner", "owner">>,
       <<"contract_address", "contract_address">>, <<"status", "status">>,
       <<"min_price", "min_price">>, <<"max_price", "max_price">>,
       <<"currency", "currency">>, <<"created_after", "created_after">>,
       <<"created_before", "created_before">>, <<"field", "sort_field">>,
       <<"direction", "sort_direction">> >>

\* the filters the marketplace routes add themselves
RouteKeys == {"seller", "buyer", "nft_id", "user"}

\* C26: in every list or query operation of either manager, each key of the
\* allow-list whose value is present is in the dispatched query with that
\* value, a key outside the allow-list is not in the query, and the call is
\* dispatched without an error.
C26_AllowListReachesQuery ==
    \A c \in ManagerCalls :
        LET k == call[c] IN
        (k.op \in QueryOperations /\ k.pc # "rejected") =>
            /\ IsSome(k.request)
            /\ LET query   == Val(k.request).url.query
                   options == OptionsOf(k)
               IN  /\ \A i \in 1..Len(AllowList) :
                        IsSome(Get(options, AllowList[i][1])) =>
                            \E j \in 1..Len(query) :
                                query[j] = QueryEntry(<<AllowList[i][2],
                                                        Get(options, AllowList[i][1])>>)
                   /\ \A j \in 1..Len(query) :
                        query[j][1] \in {AllowList[i][2] : i \in 1..Len(AllowList)}
                                            \cup RouteKeys

Max(a, b) == IF a >= b THEN a ELSE b

\* C27: a call that passed validation on a manager constructed with retry
\* count R, any integer, is dispatched at least once and at most max(1, R)
\* times, whatever the transport does.
C27_DispatchesWithinRetryCount ==
    \A c \in ManagerCalls :
        call[c].pc # "rejected" =>
            /\ call[c].dispatches >= 1
            /\ call[c].dispatches <= Max(1, ManagerOf(call[c].manager).retries)

\* on a manager constructed with retry count 0 a call failed at its one
\* dispatch, which the transport had failed
C27_Witness ==
    \E c \in ManagerCalls :
        /\ ManagerOf(call[c].manager).retries = 0
        /\ call[c].pc = "failed"
        /\ call[c].dispatches = 1
        /\ Val(call[c].lastOutcome).type = "throw"

\* the dispatches of a call that have not completed yet: those started less
\* those that failed and the one that succeeded
InFlight(k) == k.dispatches - k.attempts - (IF k.pc = "success" THEN 1 ELSE 0)

\* the backoff timers of a call that have not fired yet: those armed less those
\* that fired, each of which started one dispatch after the first
PendingTimers(k) == IF k.dispatches = 0 THEN 0 ELSE Len(k.delays) - (k.dispatches - 1)

\* C28: within one call at most one dispatch is in flight; dispatch k+1 starts
\* only after dispatch k has failed and the backoff timer armed for that
\* failure has fired; no dispatch is in flight while a timer of the call is
\* pending.
C28_OneDispatchAtATime ==
    /\ [](\A c \in Calls :
            /\ InFlight(call[c]) \in {0, 1}
            /\ PendingTimers(call[c]) \in {0, 1}
            /\ InFlight(call[c]) + PendingTimers(call[c]) <= 1)
    /\ [][\A c \in Calls :
            call'[c].dispatches # call[c].dispatches =>
                /\ call'[c].dispatches = call[c].dispatches + 1
                /\ call[c].dispatches >= 1 =>
                     /\ InFlight(call[c]) = 0
                     /\ call[c].attempts = call[c].dispatches
                     /\ ~Val(call[c].lastSettlement).ok
                     /\ PendingTimers(call[c]) = 1
                     /\ PendingTimers(call'[c]) = 0]_vars

\* the third dispatch of a call is in flight: two have failed, both timers fired
C28_Witness ==
    \E c \in ManagerCalls :
        /\ call[c].dispatches = 3
        /\ call[c].attempts = 2
        /\ InFlight(call[c]) = 1
        /\ PendingTimers(call[c]) = 0

\* the operations that POST: a retry repeats a request that is not idempotent
PostOperations == {"create", "createCollection", "createListing", "buyNFT", "cancelListing"}

\* C29: every retry of a call dispatches the request of the first attempt (same
\* URL with its query, method, headers and body), for every operation; the
\* POST operations are retried after a failed attempt like the others.
C29_RetriesRepeatTheRequest ==
    /\ [](\A c \in ManagerCalls :
            /\ call[c].dispatches >= 1 => IsSome(call[c].request)
            /\ call[c].pc = "retrying" => ENABLED TimerFires(c)
            /\ (call[c].op \in PostOperations /\ IsSome(call[c].request)) =>
                    Val(call[c].request).options.method = "POST")
    /\ [][\A c \in Calls :
            IsSome(call[c].request) => call'[c].request = call[c].request]_vars

\* create is at its second dispatch, with the body of the first
C29_Witness ==
    \E c \in ManagerCalls :
        /\ call[c].op = "create"
        /\ call[c].pc = "pending"
        /\ call[c].dispatches = 2
        /\ Val(call[c].request).options.method = "POST"
        /\ Val(call[c].request).options.body
             = Some(jsonSerialize(CreateNFTData(call[c].args[1])))

\* the configuration a facade was constructed with, known from its API key
ConfiguredAs(apiKey) == CHOOSE o \in FacadeConfigurations : o.apiKey = apiKey

\* the configured number when there is one and it is not 0, else the default
ConfiguredOrDefault(o, default) ==
    IF o = None THEN default ELSE IF Val(o) = 0 THEN default ELSE Val(o)

\* C30: the retry count and the timeout both managers of a facade hold are the
\* configured values when those are not 0, and 3 and 30000 when they are absent
\* or 0; the two managers hold the same API key, base URL, timeout and retry
\* count; a call on a facade configured with retries 0 makes up to 3 dispatches.
C30_ManagersGetConfiguredOrDefault ==
    facade.state = "ready" =>
        LET options == ConfiguredAs(facade.apiKey) IN
        /\ nftManager.constructed /\ marketplaceManager.constructed
        /\ nftManager.retries = ConfiguredOrDefault(options.retries, 3)
        /\ nftManager.timeout = ConfiguredOrDefault(options.timeout, 30000)
        /\ nftManager.apiKey = options.apiKey
        /\ marketplaceManager = nftManager
        /\ \A c \in ManagerCalls :
              call[c].pc \notin {"idle", "rejected"} =>
                  /\ call[c].maxRetries = ConfiguredOrDefault(options.retries, 3)
                  /\ options.retries = Some(0) =>
                        /\ call[c].dispatches <= 3
                        /\ (call[c].pc = "failed") = (call[c].attempts = 3)

\* on the facade configured with retries 0 and timeout 0 a call failed at its
\* third dispatch
C30_Witness ==
    /\ facade.state = "ready"
    /\ ConfiguredAs(facade.apiKey).retries = Some(0)
    /\ marketplaceManager.retries = 3 /\ marketplaceManager.timeout = 30000
    /\ \E c \in ManagerCalls :
          /\ call[c].manager = "marketplace"
          /\ call[c].pc = "failed"
          /\ call[c].dispatches = 3

====
